---------------------------- MODULE Spec2Model ----------------------------
(***************************************************************************)
(* A model of five programs of the repository:                             *)
(*   day-22a  falling bricks: parsing, the occupancy grid, drop_brick,     *)
(*            the support query and solve;                                 *)
(*   day-23a  longest walk through a grid of paths, forest and slopes;     *)
(*   day-14b  a platform of round and cube rocks tilted in four            *)
(*            directions, and day-14a, which tilts it north once;          *)
(*   day-15b  256 boxes of labelled lenses.                                *)
(*                                                                         *)
(* Text is a sequence of one-character strings, so that splitting and      *)
(* number parsing are computed the way the program computes them.          *)
(* A HashMap is a function whose DOMAIN is its key set.                    *)
(***************************************************************************)
EXTENDS Integers, Sequences, FiniteSets, TLC

VARIABLES
    input,               \* day-22a: the lines of input.txt (s.lines())
    overflow_checks,     \* build profile: TRUE panics on integer overflow, FALSE wraps
    pc,                  \* position in solve / main
    line_no,             \* PuzzleInput::from_str: lines consumed so far
    id_to_brick_map,     \* HashMap<BrickId, Brick>, as parsed, never updated afterwards
    coord_to_brick_map,  \* HashMap<ZCoordinate, HashMap<XYPoint, BrickId>>
    bricks,              \* solve: Vec<(BrickId, Brick)> after sort_unstable_by_key
    next_idx,            \* solve: position of the lazy iterator over bricks
    cur,                 \* drop_brick: brick_id and the local `brick`
    settled,             \* the bricks the iterator has yielded (values returned by drop_brick)
    pass,                \* settling harness: which pass over the bricks is running
    grid_above_found,    \* brick_could_safely_be_disintegrated: map.get_mut(max_z + 1) was Some
    brick_ids_above,     \* brick_could_safely_be_disintegrated: the local HashSet
    safe,                \* per brick id, what the support query returned
    answer,              \* solve: the local counter
    stdout,              \* what main printed
    panic,               \* the panic that ended the run, "none" otherwise
    debug_assertions,    \* build profile: TRUE keeps debug_assert!, FALSE compiles it out
    grid,                \* day-23a: the Grid parsed from the input
    platform,            \* day-14b: the Platform (tile_map, max_x, max_y)
    trail,               \* day-14b: the last calls made on the platform, oldest first
    box_array,           \* day-15b: BoxArray.boxes, indexed 0..255
    last_step,           \* day-15b: the last Operation applied and the boxes before it
    previous_record,     \* day-14b solve: the loads recorded in the window before this one
    this_record,         \* day-14b solve: the loads recorded in the current window
    solve_i,             \* day-14b solve: the local `i`, the cycles run by the loop
    jumps                \* day-14b solve: iterations left in `for _ in 0..jumps`

vars14 == <<platform, trail>>

vars15 == <<box_array, last_step>>

vars14b == <<previous_record, this_record, solve_i, jumps>>

vars == <<input, overflow_checks, pc, line_no, id_to_brick_map, coord_to_brick_map,
          bricks, next_idx, cur, settled, pass, grid_above_found, brick_ids_above,
          safe, answer, stdout, panic, debug_assertions, grid, vars14, vars15, vars14b>>

-----------------------------------------------------------------------------
(* Bounds of the checked inputs *)

MaxBricks == 2
MaxZ == 3

(* u16::MAX: the width of every Brick field *)
U16Max == 65535

-----------------------------------------------------------------------------
(* Text *)

Digits == <<"0", "1", "2", "3", "4", "5", "6", "7", "8", "9">>

IsDigit(c) == \E d \in 1..10 : Digits[d] = c

DigitVal(c) == (CHOOSE d \in 1..10 : Digits[d] = c) - 1

RECURSIVE FormatU16(_)
FormatU16(n) ==
    IF n < 10 THEN <<Digits[n + 1]>>
    ELSE Append(FormatU16(n \div 10), Digits[(n % 10) + 1])

FormatCorner(c) ==
    FormatU16(c[1]) \o <<",">> \o FormatU16(c[2]) \o <<",">> \o FormatU16(c[3])

FormatLine(c0, c1) == FormatCorner(c0) \o <<"~">> \o FormatCorner(c1)

RECURSIVE SplitAcc(_, _, _, _)
SplitAcc(s, sep, piece, acc) ==
    IF s = <<>> THEN Append(acc, piece)
    ELSE IF Head(s) = sep THEN SplitAcc(Tail(s), sep, <<>>, Append(acc, piece))
    ELSE SplitAcc(Tail(s), sep, Append(piece, Head(s)), acc)

Split(s, sep) == SplitAcc(s, sep, <<>>, <<>>)

RECURSIVE DigitsValue(_, _)
DigitsValue(s, acc) ==
    IF s = <<>> THEN acc
    ELSE IF acc > U16Max THEN acc
    ELSE DigitsValue(Tail(s), acc * 10 + DigitVal(Head(s)))

ParseU16(s) ==
    LET body == IF s # <<>> /\ Head(s) = "+" THEN Tail(s) ELSE s
    IN  IF body = <<>> THEN [tag |-> "Err"]
        ELSE IF \E i \in 1..Len(body) : ~IsDigit(body[i]) THEN [tag |-> "Err"]
        ELSE IF DigitsValue(body, 0) > U16Max THEN [tag |-> "Err"]
        ELSE [tag |-> "Ok", val |-> DigitsValue(body, 0)]

-----------------------------------------------------------------------------
(* Brick *)

Min(a, b) == IF a <= b THEN a ELSE b

Max(a, b) == IF a >= b THEN a ELSE b

(* max_z: (min_z + z_range_len) - 1 in u16. A build with overflow checks  *)
(* panics when a step leaves 0..u16::MAX; the other build wraps each step. *)
max_z_overflows(brick) ==
    \/ brick.min_z + brick.z_range_len > U16Max
    \/ brick.min_z + brick.z_range_len < 1

max_z(brick) == (((brick.min_z + brick.z_range_len) % (U16Max + 1)) - 1) % (U16Max + 1)

z_range(brick) == brick.min_z .. max_z(brick)

(* A variant of fall_by_one that lowers the brick by two layers. *)
fall_by_one_TwoLayers(brick) == [brick EXCEPT !.min_z = (brick.min_z - 2) % (U16Max + 1)]

fall_by_one(brick) == [brick EXCEPT !.min_z = brick.min_z - 1]

xy_points(brick) ==
    {[x |-> x, y |-> y] : x \in brick.min_x .. brick.max_x, y \in brick.min_y .. brick.max_y}

ParseTriple(part) ==
    LET fields == Split(part, ",")
    IN  IF Len(fields) # 3 THEN [tag |-> "Err"]
        ELSE LET a == ParseU16(fields[1])
                 b == ParseU16(fields[2])
                 c == ParseU16(fields[3])
             IN  IF a.tag = "Err" \/ b.tag = "Err" \/ c.tag = "Err" THEN [tag |-> "Err"]
                 ELSE [tag |-> "Ok", x |-> a.val, y |-> b.val, z |-> c.val]

BrickFromStr(s, checks) ==
    LET parts == Split(s, "~")
    IN  IF Len(parts) # 2 THEN [tag |-> "Err"]
        ELSE LET l == ParseTriple(parts[1])
             IN  IF l.tag = "Err" THEN [tag |-> "Err"]
                 ELSE LET r == ParseTriple(parts[2])
                      IN  IF r.tag = "Err" THEN [tag |-> "Err"]
                          ELSE LET lo == Min(l.z, r.z)
                                   hi == Max(l.z, r.z)
                                   len == (hi - lo) + 1
                               IN  IF len > U16Max /\ checks THEN [tag |-> "Panic"]
                                   ELSE [tag |-> "Ok",
                                         brick |-> [min_x |-> Min(l.x, r.x),
                                                    max_x |-> Max(l.x, r.x),
                                                    min_y |-> Min(l.y, r.y),
                                                    max_y |-> Max(l.y, r.y),
                                                    min_z |-> lo,
                                                    z_range_len |-> len % (U16Max + 1)]]

-----------------------------------------------------------------------------
(* HashMap *)

EmptyMap == [k \in {} |-> 0]

MapInsert(m, k, v) == [q \in DOMAIN m \cup {k} |-> IF q = k THEN v ELSE m[q]]

MapRemoveAll(m, ks) == [q \in DOMAIN m \ ks |-> m[q]]

MapInsertAll(m, ks, v) == [q \in DOMAIN m \cup ks |-> IF q \in ks THEN v ELSE m[q]]

EntryOrDefault(map, z) == IF z \in DOMAIN map THEN map ELSE MapInsert(map, z, EmptyMap)

RECURSIVE Perms(_)
Perms(S) ==
    IF S = {} THEN {<<>>}
    ELSE UNION {{<<e>> \o t : t \in Perms(S \ {e})} : e \in S}

(* The occupancy grid PuzzleInput::from_str builds when it visits the bricks *)
(* in the order `order`: a later brick overwrites the cells of an earlier.  *)
RECURSIVE GridOf(_, _, _)
GridOf(idmap, order, map) ==
    IF order = <<>> THEN map
    ELSE LET id == Head(order)
             brick == idmap[id]
             zs == z_range(brick)
             withLayers == [z \in DOMAIN map \cup zs |->
                               IF z \in DOMAIN map THEN map[z] ELSE EmptyMap]
             filled == [z \in DOMAIN withLayers |->
                           IF z \in zs THEN MapInsertAll(withLayers[z], xy_points(brick), id)
                           ELSE withLayers[z]]
         IN  GridOf(idmap, Tail(order), filled)

-----------------------------------------------------------------------------
(* drop_brick, one iteration of its loop at a time *)

(* Variants of CanFall that the properties of settling must tell apart from *)
(* it: one ignores what lies below the brick, one lets a brick leave layer 1. *)
CanFall_ThroughBricks(brick, map) == brick.min_z > 1

CanFall_BelowLayerOne(brick, map) ==
    /\ brick.min_z > 0
    /\ LET below == EntryOrDefault(map, brick.min_z - 1)[brick.min_z - 1]
       IN  ~(DOMAIN below # {} /\ \E p \in xy_points(brick) : p \in DOMAIN below)

(* The loop condition and the test before `break`: the brick takes a step. *)
CanFall(brick, map) ==
    /\ brick.min_z > 1
    /\ LET below == EntryOrDefault(map, brick.min_z - 1)[brick.min_z - 1]
       IN  ~(DOMAIN below # {} /\ \E p \in xy_points(brick) : p \in DOMAIN below)

(* A variant of FallGrid that leaves the top layer of the brick as it was. *)
FallGrid_KeepsTop(id, brick, map) ==
    LET down == brick.min_z - 1
        m1 == EntryOrDefault(map, down)
    IN  [m1 EXCEPT ![down] = MapInsertAll(m1[down], xy_points(brick), id)]

(* The body of an iteration that does not break. *)
FallGrid(id, brick, map) ==
    LET down == brick.min_z - 1
        top == max_z(brick)
        m1 == EntryOrDefault(map, down)
        m2 == [m1 EXCEPT ![down] = MapInsertAll(m1[down], xy_points(brick), id)]
    IN  [m2 EXCEPT ![top] = MapRemoveAll(m2[top], xy_points(brick))]

(* The grid when the loop ends: an iteration that breaks has still run *)
(* entry(next_z_down).or_default().                                     *)
StopGrid(brick, map) ==
    IF brick.min_z > 1 THEN EntryOrDefault(map, brick.min_z - 1) ELSE map

-----------------------------------------------------------------------------
(* The support query *)

has_two_or_more_bricks_below(brick, map, checks) ==
    IF brick.min_z = 0 /\ checks THEN "panic"
    ELSE LET z == (brick.min_z - 1) % (U16Max + 1)
         IN  IF z \notin DOMAIN map THEN "panic"
             ELSE IF Cardinality({map[z][p] : p \in xy_points(brick) \cap DOMAIN map[z]}) > 1
                  THEN "true" ELSE "false"

(* `map_borrow` (line 193) is a RefMut that lives to the end of the function, *)
(* so the RefCell is mutably borrowed when the closure of line 205 runs       *)
(* map.borrow(): that call panics (BorrowError) as soon as all() visits an id. *)
brick_could_safely_be_disintegrated(brick, map, idmap, checks) ==
    LET above == (max_z(brick) + 1) % (U16Max + 1)
        map_borrow == "RefMut"
    IN  IF checks /\ (max_z_overflows(brick) \/ max_z(brick) = U16Max)
        THEN [result |-> "panic", found |-> FALSE, ids |-> {}]
        ELSE IF above \notin DOMAIN map
        THEN [result |-> "true", found |-> FALSE, ids |-> {}]
        ELSE LET ids == {map[above][p] : p \in xy_points(brick) \cap DOMAIN map[above]}
                 below == {has_two_or_more_bricks_below(idmap[id], map, checks) : id \in ids}
             IN  [found |-> TRUE, ids |-> ids,
                  result |-> IF ids = {} THEN "true"
                             ELSE IF map_borrow = "RefMut" THEN "panic"
                             ELSE IF "panic" \in below THEN "panic"
                             ELSE IF below = {"true"} THEN "true"
                             ELSE "false"]

-----------------------------------------------------------------------------
(* Inputs *)

(* Bricks of the bounded universe, as pairs of corners: a cube at x = 0, a *)
(* cube at x = 1, a bar along x, a bar two layers tall and a block given   *)
(* top corner first, each with its lowest layer anywhere in 0..MaxZ (layer *)
(* 0 is below the floor).                                                  *)
Shapes == { <<<<0, 0, 0>>, <<0, 0, 0>>>>,
            <<<<1, 0, 0>>, <<1, 0, 0>>>>,
            <<<<0, 0, 0>>, <<1, 0, 0>>>>,
            <<<<0, 0, 0>>, <<0, 0, 1>>>>,
            <<<<1, 0, 1>>, <<0, 0, 0>>>> }

Lift(c, z) == <<c[1], c[2], c[3] + z>>

BrickLines == {FormatLine(Lift(sh[1], z), Lift(sh[2], z)) : sh \in Shapes, z \in 0..MaxZ}

ExampleInput ==
    << FormatLine(<<1,0,1>>, <<1,2,1>>),
       FormatLine(<<0,0,2>>, <<2,0,2>>),
       FormatLine(<<0,2,3>>, <<2,2,3>>),
       FormatLine(<<0,0,4>>, <<0,2,4>>),
       FormatLine(<<2,0,5>>, <<2,2,5>>),
       FormatLine(<<0,1,6>>, <<2,1,6>>),
       FormatLine(<<1,1,8>>, <<1,1,9>>) >>

BoundedInputs == UNION {[1..n -> BrickLines] : n \in 1..MaxBricks}

(* Lines that are not two triples of numbers, and lines that are: among the  *)
(* latter a brick given top corner first and one spanning all 65536 layers. *)
BadLines ==
    { <<>>,
      FormatCorner(<<1,0,1>>),
      FormatCorner(<<1,0,1>>) \o <<"~">>,
      FormatCorner(<<1,0,1>>) \o <<"~", "1", ",", "2">>,
      <<"1", ",", "0", "~">> \o FormatCorner(<<1,2,1>>),
      FormatCorner(<<1,0,1>>) \o <<"~", "1", ",", "2", ",", "1", ",", "1">>,
      FormatLine(<<1,0,1>>, <<1,2,1>>) \o <<"~">> \o FormatCorner(<<1,1,1>>),
      FormatCorner(<<1,0,1>>) \o <<"~", "1", ",", "x", ",", "1">>,
      FormatCorner(<<1,0,1>>) \o <<"~", "1", ",", ",", "1">>,
      FormatCorner(<<1,0,1>>) \o <<"~", "1", ",", "-", "2", ",", "1">>,
      FormatCorner(<<1,0,1>>) \o <<"~", "1", ",", "2", ",", "6", "5", "5", "3", "6">> }

GoodLines ==
    { FormatLine(<<1,0,1>>, <<1,2,1>>),
      FormatLine(<<1,2,3>>, <<0,2,3>>),
      FormatLine(<<0,0,U16Max>>, <<0,0,0>>),
      FormatLine(<<0,0,0>>, <<0,0,U16Max>>) }

(* A single brick that stands on layer 1 and whose top is layer 65535 *)
ExtremeInputs == { <<FormatLine(<<0,0,1>>, <<0,0,U16Max>>)>> }

MalformedInputs ==
    {s \in UNION {[1..n -> BadLines \cup GoodLines] : n \in 1..MaxBricks} :
        \E i \in 1..Len(s) : s[i] \in BadLines}

-----------------------------------------------------------------------------
(* solve and main of day-22a *)

NoBrick == [min_x |-> 0, max_x |-> 0, min_y |-> 0, max_y |-> 0, min_z |-> 0, z_range_len |-> 0]

NoCur == [id |-> 0, brick |-> NoBrick]

NoPlatform == [tile_map |-> <<>>, max_x |-> 0, max_y |-> 0]

NoBoxes == <<>>

NoStep == [op |-> "none"]

NoGrid == [map |-> EmptyMap, max_x |-> 0, max_y |-> 0, end_point |-> [x |-> 0, y |-> 0]]

InitFor(inputs) ==
    /\ input \in inputs
    /\ overflow_checks \in BOOLEAN
    /\ pc = "parse"
    /\ line_no = 0
    /\ id_to_brick_map = EmptyMap
    /\ coord_to_brick_map = EmptyMap
    /\ bricks = <<>>
    /\ next_idx = 1
    /\ cur = NoCur
    /\ settled = EmptyMap
    /\ pass = 1
    /\ grid_above_found = FALSE
    /\ brick_ids_above = {}
    /\ safe = EmptyMap
    /\ answer = 0
    /\ stdout = <<>>
    /\ panic = "none"
    /\ debug_assertions = TRUE
    /\ grid = NoGrid
    /\ platform = NoPlatform
    /\ trail = <<>>
    /\ box_array = NoBoxes
    /\ last_step = NoStep
    /\ previous_record = <<>>
    /\ this_record = <<>>
    /\ solve_i = 0
    /\ jumps = 0

Init == InitFor(BoundedInputs \cup {ExampleInput} \cup MalformedInputs \cup ExtremeInputs)

Abort(msg) ==
    /\ pc' = "panicked"
    /\ panic' = msg

(* PuzzleInput::from_str, one line of the first loop; an Err goes back to *)
(* solve through parse_input, where unwrap() panics.                      *)
ParseLine ==
    /\ pc = "parse"
    /\ line_no < Len(input)
    /\ LET r == BrickFromStr(input[line_no + 1], overflow_checks)
       IN  CASE r.tag = "Ok" ->
                  /\ id_to_brick_map' = MapInsert(id_to_brick_map, line_no, r.brick)
                  /\ line_no' = line_no + 1
                  /\ UNCHANGED <<pc, panic>>
             [] r.tag = "Err" ->
                  /\ id_to_brick_map' = EmptyMap
                  /\ Abort("unwrap on Err")
                  /\ UNCHANGED line_no
             [] r.tag = "Panic" ->
                  /\ id_to_brick_map' = EmptyMap
                  /\ Abort("main.rs:95: attempt to add with overflow")
                  /\ UNCHANGED line_no
    /\ UNCHANGED <<vars14, vars15, vars14b, input, overflow_checks, coord_to_brick_map,
                   bricks, next_idx, cur, settled, pass, grid_above_found,
                   brick_ids_above, safe, answer, stdout, debug_assertions,
                   grid>>

(* PuzzleInput::from_str, its second loop: the HashMap is visited in an *)
(* order the program does not control; z_range() of every brick is      *)
(* evaluated, and with it max_z().                                      *)
BuildGrid ==
    /\ pc = "parse"
    /\ line_no = Len(input)
    /\ IF overflow_checks /\ \E i \in DOMAIN id_to_brick_map : max_z_overflows(id_to_brick_map[i])
       THEN /\ Abort("main.rs:29: attempt to add with overflow")
            /\ UNCHANGED coord_to_brick_map
       ELSE /\ \E order \in Perms(DOMAIN id_to_brick_map) :
                  coord_to_brick_map' = GridOf(id_to_brick_map, order, EmptyMap)
            /\ pc' = "collect"
            /\ UNCHANGED panic
    /\ UNCHANGED <<vars14, vars15, vars14b, input, overflow_checks, line_no,
                   id_to_brick_map, bricks, next_idx, cur, settled, pass,
                   grid_above_found, brick_ids_above, safe, answer, stdout,
                   debug_assertions, grid>>

(* A variant of SortedOrders: the orders in which min_z never increases. *)
RECURSIVE SortedOrders_Descending(_, _)
SortedOrders_Descending(ids, bmap) ==
    IF ids = {} THEN {<<>>}
    ELSE LET most == {i \in ids : \A j \in ids : bmap[i].min_z >= bmap[j].min_z}
         IN  UNION {{<<[id |-> i, brick |-> bmap[i]]>> \o t :
                        t \in SortedOrders_Descending(ids \ {i}, bmap)} : i \in most}

(* A variant of SortedOrders without the sort: every order of the ids. *)
SortedOrders_Unsorted(ids, bmap) ==
    {[k \in 1..Len(order) |-> [id |-> order[k], brick |-> bmap[order[k]]]] : order \in Perms(ids)}

(* Every order of the ids in which min_z(id) never decreases: what        *)
(* sort_unstable_by_key may produce from an arbitrarily ordered Vec.      *)
RECURSIVE SortedOrders(_, _)
SortedOrders(ids, bmap) ==
    IF ids = {} THEN {<<>>}
    ELSE LET least == {i \in ids : \A j \in ids : bmap[i].min_z <= bmap[j].min_z}
         IN  UNION {{<<[id |-> i, brick |-> bmap[i]]>> \o t :
                        t \in SortedOrders(ids \ {i}, bmap)} : i \in least}

CollectAndSort ==
    /\ pc = "collect"
    /\ bricks' \in SortedOrders(DOMAIN id_to_brick_map, id_to_brick_map)
    /\ next_idx' = 1
    /\ pc' = "iter"
    /\ UNCHANGED <<vars14, vars15, vars14b, input, overflow_checks, line_no,
                   id_to_brick_map, coord_to_brick_map, cur, settled, pass,
                   grid_above_found, brick_ids_above, safe, answer, stdout,
                   panic, debug_assertions, grid>>

(* The for loop asks the lazy map iterator for its next item: drop_brick *)
(* is entered for that brick only now.                                   *)
NextBrick ==
    /\ pc = "iter"
    /\ next_idx <= Len(bricks)
    /\ cur' = bricks[next_idx]
    /\ pc' = "drop"
    /\ UNCHANGED <<vars14, vars15, vars14b, input, overflow_checks, line_no,
                   id_to_brick_map, coord_to_brick_map, bricks, next_idx,
                   settled, pass, grid_above_found, brick_ids_above, safe,
                   answer, stdout, panic, debug_assertions, grid>>

FallStep ==
    /\ pc = "drop"
    /\ CanFall(cur.brick, coord_to_brick_map)
    /\ coord_to_brick_map' = FallGrid(cur.id, cur.brick, coord_to_brick_map)
    /\ cur' = [cur EXCEPT !.brick = fall_by_one(cur.brick)]
    /\ UNCHANGED <<vars14, vars15, vars14b, input, overflow_checks, pc, line_no,
                   id_to_brick_map, bricks, next_idx, settled, pass,
                   grid_above_found, brick_ids_above, safe, answer, stdout,
                   panic, debug_assertions, grid>>

(* drop_brick returns; the loop body of solve is entered with the brick. *)
DropReturn ==
    /\ pc = "drop"
    /\ ~CanFall(cur.brick, coord_to_brick_map)
    /\ coord_to_brick_map' = StopGrid(cur.brick, coord_to_brick_map)
    /\ settled' = MapInsert(settled, cur.id, cur.brick)
    /\ pc' = "query"
    /\ UNCHANGED <<vars14, vars15, vars14b, input, overflow_checks, line_no,
                   id_to_brick_map, bricks, next_idx, cur, pass,
                   grid_above_found, brick_ids_above, safe, answer, stdout,
                   panic, debug_assertions, grid>>

Query ==
    /\ pc = "query"
    /\ LET q == brick_could_safely_be_disintegrated(cur.brick, coord_to_brick_map,
                                                    id_to_brick_map, overflow_checks)
       IN  /\ grid_above_found' = q.found
           /\ brick_ids_above' = q.ids
           /\ IF q.result = "panic"
              THEN /\ Abort(IF q.found THEN "already mutably borrowed: BorrowError"
                              ELSE "main.rs:194: attempt to add with overflow")
                   /\ UNCHANGED <<safe, answer, next_idx>>
              ELSE /\ safe' = MapInsert(safe, cur.id, q.result = "true")
                   /\ answer' = IF q.result = "true" THEN answer + 1 ELSE answer
                   /\ next_idx' = next_idx + 1
                   /\ pc' = "iter"
                   /\ UNCHANGED panic
    /\ UNCHANGED <<vars14, vars15, vars14b, input, overflow_checks, line_no,
                   id_to_brick_map, coord_to_brick_map, bricks, cur, settled,
                   pass, stdout, debug_assertions, grid>>

(* The iterator is exhausted: solve returns answer and main prints it. *)
Finish ==
    /\ pc = "iter"
    /\ next_idx > Len(bricks)
    /\ stdout' = <<answer>>
    /\ pc' = "done"
    /\ UNCHANGED <<vars14, vars15, vars14b, input, overflow_checks, line_no,
                   id_to_brick_map, coord_to_brick_map, bricks, next_idx, cur,
                   settled, pass, grid_above_found, brick_ids_above, safe,
                   answer, panic, debug_assertions, grid>>

Next ==
    \/ ParseLine
    \/ BuildGrid
    \/ CollectAndSort
    \/ NextBrick
    \/ FallStep
    \/ DropReturn
    \/ Query
    \/ Finish

Spec == Init /\ [][Next]_vars

-----------------------------------------------------------------------------
(* The settling pass on its own: drop_brick applied to every brick in the *)
(* order solve uses, then applied again to every brick of the result in   *)
(* ascending min_z order, on the same grid.                               *)

InitSettle == InitFor(BoundedInputs \cup {ExampleInput})

SettleReturn ==
    /\ pc = "drop"
    /\ ~CanFall(cur.brick, coord_to_brick_map)
    /\ coord_to_brick_map' = StopGrid(cur.brick, coord_to_brick_map)
    /\ settled' = MapInsert(settled, cur.id, cur.brick)
    /\ next_idx' = next_idx + 1
    /\ pc' = "iter"
    /\ UNCHANGED <<vars14, vars15, vars14b, input, overflow_checks, line_no,
                   id_to_brick_map, bricks, cur, pass, grid_above_found,
                   brick_ids_above, safe, answer, stdout, panic,
                   debug_assertions, grid>>

SecondPass ==
    /\ pc = "iter"
    /\ next_idx > Len(bricks)
    /\ pass = 1
    /\ bricks' \in SortedOrders(DOMAIN settled, settled)
    /\ next_idx' = 1
    /\ pass' = 2
    /\ UNCHANGED <<vars14, vars15, vars14b, input, overflow_checks, pc, line_no,
                   id_to_brick_map, coord_to_brick_map, cur, settled,
                   grid_above_found, brick_ids_above, safe, answer, stdout,
                   panic, debug_assertions, grid>>

SettleDone ==
    /\ pc = "iter"
    /\ next_idx > Len(bricks)
    /\ pass = 2
    /\ pc' = "settled"
    /\ UNCHANGED <<vars14, vars15, vars14b, input, overflow_checks, line_no,
                   id_to_brick_map, coord_to_brick_map, bricks, next_idx, cur,
                   settled, pass, grid_above_found, brick_ids_above, safe,
                   answer, stdout, panic, debug_assertions, grid>>

NextSettle ==
    \/ ParseLine
    \/ BuildGrid
    \/ CollectAndSort
    \/ NextBrick
    \/ FallStep
    \/ SettleReturn
    \/ SecondPass
    \/ SettleDone

SettleSpec == InitSettle /\ [][NextSettle]_vars

-----------------------------------------------------------------------------
(* day-23a: the grid, the walk and solve *)

MaxGridX == 2
MaxGridY == 2

Directions == {"Up", "Right", "Down", "Left"}

TileFromChar(c) ==
    CASE c = "." -> [tag |-> "Ok", tile |-> [kind |-> "Path", dir |-> "None"]]
      [] c = "#" -> [tag |-> "Ok", tile |-> [kind |-> "Forest", dir |-> "None"]]
      [] c = "^" -> [tag |-> "Ok", tile |-> [kind |-> "Slope", dir |-> "Up"]]
      [] c = ">" -> [tag |-> "Ok", tile |-> [kind |-> "Slope", dir |-> "Right"]]
      [] c = "v" -> [tag |-> "Ok", tile |-> [kind |-> "Slope", dir |-> "Down"]]
      [] c = "<" -> [tag |-> "Ok", tile |-> [kind |-> "Slope", dir |-> "Left"]]
      [] OTHER -> [tag |-> "Err"]

(* Grid::from_str: max_y is the index of the last line, max_x the index of *)
(* the last character read.                                                 *)
GridFromStr(rows) ==
    LET inside == UNION {{[x |-> x, y |-> y - 1] : x \in 0..Len(rows[y]) - 1} :
                            y \in 1..Len(rows)}
        filled == {y \in 1..Len(rows) : rows[y] # <<>>}
        mx == IF filled = {} THEN 0
              ELSE Len(rows[CHOOSE y \in filled : \A w \in filled : w <= y]) - 1
        my == IF rows = <<>> THEN 0 ELSE Len(rows) - 1
    IN  IF \E p \in inside : TileFromChar(rows[p.y + 1][p.x + 1]).tag = "Err"
        THEN [tag |-> "Err"]
        ELSE [tag |-> "Ok",
              grid |-> [map |-> [p \in inside |-> TileFromChar(rows[p.y + 1][p.x + 1]).tile],
                        max_x |-> mx,
                        max_y |-> my,
                        end_point |-> [x |-> mx - 1, y |-> my]]]

START_POINT == [x |-> 1, y |-> 0]

Go(point, direction) ==
    CASE direction = "Up" -> [point EXCEPT !.y = point.y - 1]
      [] direction = "Down" -> [point EXCEPT !.y = point.y + 1]
      [] direction = "Left" -> [point EXCEPT !.x = point.x - 1]
      [] direction = "Right" -> [point EXCEPT !.x = point.x + 1]

PointDirections(point, mx, my) ==
    (Directions
        \ (IF point.x = 0 THEN {"Left"} ELSE IF point.x = mx THEN {"Right"} ELSE {}))
        \ (IF point.y = 0 THEN {"Up"} ELSE IF point.y = my THEN {"Down"} ELSE {})

(* "Panic" for the Forest tile; a set of directions otherwise *)
TileDirections(tile) ==
    CASE tile.kind = "Path" -> Directions
      [] tile.kind = "Slope" -> {tile.dir}
      [] tile.kind = "Forest" -> {"Panic"}

(* possible_next_points: [tag |-> "Ok", pts |-> ...] or [tag |-> "Panic"]. A *)
(* HashMap index with a missing key panics; so do debug_assert_ne! and the   *)
(* Forest arm of Tile::available_directions.                                 *)
possible_next_points(point, g, route_so_far, dbg) ==
    IF dbg /\ point = g.end_point THEN [tag |-> "Panic"]
    ELSE IF point \notin DOMAIN g.map THEN [tag |-> "Panic"]
    ELSE IF g.map[point].kind = "Forest" THEN [tag |-> "Panic"]
    ELSE LET dirs == PointDirections(point, g.max_x, g.max_y) \cap TileDirections(g.map[point])
             reached == {Go(point, d) : d \in dirs}
             fresh == {q \in reached : q \notin route_so_far}
         IN  IF \E q \in fresh : q \notin DOMAIN g.map THEN [tag |-> "Panic"]
             ELSE [tag |-> "Ok", pts |-> {q \in fresh : g.map[q].kind # "Forest"}]

(* One iteration of the while loop of longest_route_from. A state of the  *)
(* loop is the route, the possibilities and whether the function is still *)
(* in the loop ("Loop"), has left it ("Exit"), has returned ("Return") or *)
(* has panicked; an iteration leaves a finished state as it is.           *)
WhileBody(st, g, dbg) ==
    IF st.tag # "Loop" THEN st
    ELSE IF Cardinality(st.possibilities) # 1 THEN [st EXCEPT !.tag = "Exit"]
    ELSE LET next_point == CHOOSE q \in st.possibilities : TRUE
             route == st.route \cup {next_point}
         IN  IF next_point \in st.route
             THEN [tag |-> "Return", route |-> {}, possibilities |-> {}]
             ELSE IF next_point = g.end_point
             THEN [tag |-> "Return", route |-> route, possibilities |-> {}]
             ELSE LET p == possible_next_points(next_point, g, route, dbg)
                  IN  IF p.tag = "Panic"
                      THEN [tag |-> "Panic", route |-> route, possibilities |-> {}]
                      ELSE [tag |-> "Loop", route |-> route, possibilities |-> p.pts]

(* k iterations of the loop: the later half is applied to the result of *)
(* the earlier half if the function is then still in the loop.          *)
RECURSIVE WhileLoop(_, _, _, _)
WhileLoop(st, g, dbg, k) ==
    IF k <= 1 THEN WhileBody(st, g, dbg)
    ELSE LET half == WhileLoop(st, g, dbg, k \div 2)
         IN  IF half.tag # "Loop" THEN half
             ELSE WhileLoop(half, g, dbg, k - (k \div 2))

(* longest_route_from. Every iteration that stays in the loop adds a tile *)
(* to the route, so the loop has ended after one more iteration than      *)
(* there are tiles. Of several longest routes at a junction the one kept  *)
(* depends on the HashSet's order; only its length is used.               *)
RECURSIVE longest_route_from(_, _, _, _)
longest_route_from(point, g, route, dbg) ==
    LET first == possible_next_points(point, g, route, dbg)
    IN  IF first.tag = "Panic" THEN [tag |-> "Panic"]
        ELSE LET st == WhileLoop([tag |-> "Loop", route |-> route,
                                  possibilities |-> first.pts],
                                 g, dbg, Cardinality(DOMAIN g.map) + 1)
             IN  CASE st.tag = "Panic" -> [tag |-> "Panic"]
                   [] st.tag = "Return" -> [tag |-> "Ok", route |-> st.route]
                   [] OTHER ->
                        LET found == {longest_route_from(q, g, st.route \cup {q}, dbg) :
                                         q \in st.possibilities}
                        IN  IF \E r \in found : r.tag = "Panic" THEN [tag |-> "Panic"]
                            ELSE IF found = {} THEN [tag |-> "Ok", route |-> {}]
                            ELSE CHOOSE r \in found :
                                     \A o \in found :
                                         Cardinality(o.route) <= Cardinality(r.route)

(* solve: the route's length less one, in usize *)
Solve23(g, dbg, checks) ==
    LET r == longest_route_from(START_POINT, g, {START_POINT}, dbg)
    IN  IF r.tag = "Panic" THEN [tag |-> "Panic"]
        ELSE IF Cardinality(r.route) = 0
             THEN (IF checks THEN [tag |-> "Panic"] ELSE [tag |-> "Ok", steps |-> "usize::MAX"])
             ELSE [tag |-> "Ok", steps |-> Cardinality(r.route) - 1]

GridTiles == {".", "#", "v"}

(* The grid of tests::test_example, a row per line *)
ExampleGrid ==
    <<
       <<"#",".","#","#","#","#","#","#","#","#","#","#","#","#","#","#","#","#","#","#","#","#","#">>,
       <<"#",".",".",".",".",".",".",".","#","#","#","#","#","#","#","#","#",".",".",".","#","#","#">>,
       <<"#","#","#","#","#","#","#",".","#","#","#","#","#","#","#","#","#",".","#",".","#","#","#">>,
       <<"#","#","#",".",".",".",".",".","#",".",">",".",">",".","#","#","#",".","#",".","#","#","#">>,
       <<"#","#","#","v","#","#","#","#","#",".","#","v","#",".","#","#","#",".","#",".","#","#","#">>,
       <<"#","#","#",".",">",".",".",".","#",".","#",".","#",".",".",".",".",".","#",".",".",".","#">>,
       <<"#","#","#","v","#","#","#",".","#",".","#",".","#","#","#","#","#","#","#","#","#",".","#">>,
       <<"#","#","#",".",".",".","#",".","#",".","#",".",".",".",".",".",".",".","#",".",".",".","#">>,
       <<"#","#","#","#","#",".","#",".","#",".","#","#","#","#","#","#","#",".","#",".","#","#","#">>,
       <<"#",".",".",".",".",".","#",".","#",".","#",".",".",".",".",".",".",".","#",".",".",".","#">>,
       <<"#",".","#","#","#","#","#",".","#",".","#",".","#","#","#","#","#","#","#","#","#","v","#">>,
       <<"#",".","#",".",".",".","#",".",".",".","#",".",".",".","#","#","#",".",".",".",">",".","#">>,
       <<"#",".","#",".","#","v","#","#","#","#","#","#","#","v","#","#","#",".","#","#","#","v","#">>,
       <<"#",".",".",".","#",".",">",".","#",".",".",".",">",".",">",".","#",".","#","#","#",".","#">>,
       <<"#","#","#","#","#","v","#",".","#",".","#","#","#","v","#",".","#",".","#","#","#",".","#">>,
       <<"#",".",".",".",".",".","#",".",".",".","#",".",".",".","#",".","#",".","#",".",".",".","#">>,
       <<"#",".","#","#","#","#","#","#","#","#","#",".","#","#","#",".","#",".","#",".","#","#","#">>,
       <<"#",".",".",".","#","#","#",".",".",".","#",".",".",".","#",".",".",".","#",".","#","#","#">>,
       <<"#","#","#",".","#","#","#",".","#",".","#","#","#","v","#","#","#","#","#","v","#","#","#">>,
       <<"#",".",".",".","#",".",".",".","#",".","#",".",">",".",">",".","#",".",">",".","#","#","#">>,
       <<"#",".","#","#","#",".","#","#","#",".","#",".","#","#","#",".","#",".","#","v","#","#","#">>,
       <<"#",".",".",".",".",".","#","#","#",".",".",".","#","#","#",".",".",".","#",".",".",".","#">>,
       <<"#","#","#","#","#","#","#","#","#","#","#","#","#","#","#","#","#","#","#","#","#",".","#">>
    >>

(* Every grid of (MaxGridX + 1) x (MaxGridY + 1) tiles whose start and end *)
(* tiles are paths.                                                        *)
SmallGrids ==
    {rows \in [1..MaxGridY + 1 -> [1..MaxGridX + 1 -> GridTiles]] :
        rows[1][2] = "." /\ rows[MaxGridY + 1][MaxGridX] = "."}

Init23 ==
    /\ input \in SmallGrids \cup {ExampleGrid}
    /\ overflow_checks \in BOOLEAN
    /\ debug_assertions \in BOOLEAN
    /\ pc = "parse"
    /\ grid = NoGrid
    /\ answer = 0
    /\ stdout = <<>>
    /\ panic = "none"
    /\ line_no = 0
    /\ id_to_brick_map = EmptyMap
    /\ coord_to_brick_map = EmptyMap
    /\ bricks = <<>>
    /\ next_idx = 1
    /\ cur = NoCur
    /\ settled = EmptyMap
    /\ pass = 1
    /\ grid_above_found = FALSE
    /\ brick_ids_above = {}
    /\ safe = EmptyMap
    /\ platform = NoPlatform
    /\ trail = <<>>
    /\ box_array = NoBoxes
    /\ last_step = NoStep
    /\ previous_record = <<>>
    /\ this_record = <<>>
    /\ solve_i = 0
    /\ jumps = 0

vars22 == <<line_no, id_to_brick_map, coord_to_brick_map, bricks, next_idx, cur, settled,
            pass, grid_above_found, brick_ids_above, safe>>

(* main: Grid::from_str(&raw_input).unwrap() *)
ParseGrid ==
    /\ pc = "parse"
    /\ LET r == GridFromStr(input)
       IN  IF r.tag = "Ok"
           THEN grid' = r.grid /\ pc' = "solve" /\ UNCHANGED panic
           ELSE Abort("unwrap on Err") /\ UNCHANGED grid
    /\ UNCHANGED <<vars14, vars15, vars14b, input, overflow_checks, debug_assertions,
                   answer, stdout, vars22>>

(* main: solve(input) *)
SolveGrid ==
    /\ pc = "solve"
    /\ LET r == Solve23(grid, debug_assertions, overflow_checks)
       IN  IF r.tag = "Ok"
           THEN answer' = r.steps /\ pc' = "print" /\ UNCHANGED panic
           ELSE Abort("panicked in solve") /\ UNCHANGED answer
    /\ UNCHANGED <<vars14, vars15, vars14b, input, overflow_checks, debug_assertions,
                   grid, stdout, vars22>>

PrintAnswer ==
    /\ pc = "print"
    /\ stdout' = <<answer>>
    /\ pc' = "done"
    /\ UNCHANGED <<vars14, vars15, vars14b, input, overflow_checks, debug_assertions,
                   grid, answer, panic, vars22>>

Next23 ==
    \/ ParseGrid
    \/ SolveGrid
    \/ PrintAnswer

Spec23 == Init23 /\ [][Next23]_vars

-----------------------------------------------------------------------------
(* day-14b: the platform and its tilts                                     *)
(*                                                                         *)
(* A Coordinate(x, y) is the pair <<x, y>>; x counts columns from the west *)
(* edge, y counts rows from the north edge.  The loops of the four tilts   *)
(* are written as the code writes them: the labelled outer loop is the     *)
(* ...Loop operator, the inner `for` is the ...For operator, `break        *)
(* 'outer_column_loop` returns the tile map and `continue                  *)
(* 'outer_column_loop` re-enters the outer loop.                           *)

MaxTiles == 6

TileTryFrom(c) ==
    CASE c = "O" -> [tag |-> "Ok", tile |-> "RoundRock"]
      [] c = "#" -> [tag |-> "Ok", tile |-> "CubeRock"]
      [] c = "." -> [tag |-> "Ok", tile |-> "Empty"]
      [] OTHER   -> [tag |-> "Err"]

(* Platform::from_str on the lines of the input: every character becomes a *)
(* tile at (column, line); max_x is the length of the first line.          *)
PlatformFromStr(lines) ==
    IF \E y \in 1..Len(lines) : \E x \in 1..Len(lines[y]) : TileTryFrom(lines[y][x]).tag = "Err"
    THEN [tag |-> "Err"]
    ELSE IF lines = <<>>
    THEN [tag |-> "Panic"]
    ELSE [tag |-> "Ok",
          platform |->
             [tile_map |-> [c \in UNION {{<<x, y>> : x \in 0..Len(lines[y + 1]) - 1} :
                                             y \in 0..Len(lines) - 1}
                            |-> TileTryFrom(lines[c[2] + 1][c[1] + 1]).tile],
              max_x |-> Len(lines[1]),
              max_y |-> Len(lines)]]

RECURSIVE NorthLoop(_, _, _, _), NorthFor(_, _, _, _, _)
NorthLoop(tm, x, y, max_y) ==
    IF y >= max_y - 1 THEN tm
    ELSE IF tm[<<x, y>>] # "Empty" THEN NorthLoop(tm, x, y + 1, max_y)
    ELSE NorthFor(tm, x, y, y + 1, max_y)

NorthFor(tm, x, y, following_y, max_y) ==
    IF following_y >= max_y THEN NorthLoop(tm, x, y + 1, max_y)
    ELSE CASE tm[<<x, following_y>>] = "CubeRock" ->
                 IF following_y = max_y - 1 THEN tm
                 ELSE NorthLoop(tm, x, following_y + 1, max_y)
           [] tm[<<x, following_y>>] = "RoundRock" ->
                 LET moved == [tm EXCEPT ![<<x, y>>] = "RoundRock",
                                         ![<<x, following_y>>] = "Empty"]
                 IN  IF following_y = max_y - 1 THEN moved
                     ELSE NorthLoop(moved, x, y + 1, max_y)
           [] tm[<<x, following_y>>] = "Empty" ->
                 IF following_y = max_y - 1 THEN tm
                 ELSE NorthFor(tm, x, y, following_y + 1, max_y)

RECURSIVE NorthColumns_SkipsLastColumn(_, _, _, _)
NorthColumns_SkipsLastColumn(tm, x, max_x, max_y) ==
    IF x >= max_x - 1 THEN tm
    ELSE NorthColumns_SkipsLastColumn(NorthLoop(tm, x, 0, max_y), x + 1, max_x, max_y)

(* tilt_north: for x in 0..self.max_x.  A column is compared with the map *)
(* it was made from so that it is evaluated before the next one starts.   *)
RECURSIVE NorthColumns(_, _, _, _)
NorthColumns(tm, x, max_x, max_y) ==
    IF x >= max_x THEN tm
    ELSE LET column == NorthLoop(tm, x, 0, max_y)
         IN  IF column = tm THEN NorthColumns(tm, x + 1, max_x, max_y)
             ELSE NorthColumns(column, x + 1, max_x, max_y)

RECURSIVE SouthLoop(_, _, _), SouthFor(_, _, _, _)
SouthLoop(tm, x, y) ==
    IF y = 0 THEN tm
    ELSE IF tm[<<x, y>>] # "Empty" THEN SouthLoop(tm, x, y - 1)
    ELSE SouthFor(tm, x, y, y - 1)

SouthFor(tm, x, y, following_y) ==
    IF following_y < 0 THEN SouthLoop(tm, x, y - 1)
    ELSE CASE tm[<<x, following_y>>] = "CubeRock" ->
                 IF following_y = 0 THEN tm
                 ELSE SouthLoop(tm, x, following_y - 1)
           [] tm[<<x, following_y>>] = "RoundRock" ->
                 LET moved == [tm EXCEPT ![<<x, y>>] = "RoundRock",
                                         ![<<x, following_y>>] = "Empty"]
                 IN  IF following_y = 0 THEN moved
                     ELSE SouthLoop(moved, x, y - 1)
           [] tm[<<x, following_y>>] = "Empty" ->
                 IF following_y = 0 THEN tm
                 ELSE SouthFor(tm, x, y, following_y - 1)

(* tilt_south: for x in (0..self.max_x).rev(), y starting at max_y - 1 *)
RECURSIVE SouthColumns(_, _, _)
SouthColumns(tm, x, max_y) ==
    IF x < 0 THEN tm
    ELSE LET column == SouthLoop(tm, x, max_y - 1)
         IN  IF column = tm THEN SouthColumns(tm, x - 1, max_y)
             ELSE SouthColumns(column, x - 1, max_y)

RECURSIVE WestLoop(_, _, _, _), WestFor(_, _, _, _, _)
WestLoop(tm, x, y, max_x) ==
    IF x = max_x - 1 THEN tm
    ELSE IF tm[<<x, y>>] # "Empty" THEN WestLoop(tm, x + 1, y, max_x)
    ELSE WestFor(tm, x, y, x + 1, max_x)

WestFor(tm, x, y, following_x, max_x) ==
    IF following_x >= max_x THEN WestLoop(tm, x + 1, y, max_x)
    ELSE CASE tm[<<following_x, y>>] = "CubeRock" ->
                 IF following_x = max_x - 1 THEN tm
                 ELSE WestLoop(tm, following_x + 1, y, max_x)
           [] tm[<<following_x, y>>] = "RoundRock" ->
                 LET moved == [tm EXCEPT ![<<x, y>>] = "RoundRock",
                                         ![<<following_x, y>>] = "Empty"]
                 IN  IF following_x = max_x - 1 THEN moved
                     ELSE WestLoop(moved, x + 1, y, max_x)
           [] tm[<<following_x, y>>] = "Empty" ->
                 IF following_x = max_x - 1 THEN tm
                 ELSE WestFor(tm, x, y, following_x + 1, max_x)

(* tilt_west: for y in 0..self.max_y *)
RECURSIVE WestRows(_, _, _, _)
WestRows(tm, y, max_x, max_y) ==
    IF y >= max_y THEN tm
    ELSE LET row == WestLoop(tm, 0, y, max_x)
         IN  IF row = tm THEN WestRows(tm, y + 1, max_x, max_y)
             ELSE WestRows(row, y + 1, max_x, max_y)

RECURSIVE EastLoop(_, _, _), EastFor(_, _, _, _)
EastLoop(tm, x, y) ==
    IF x = 0 THEN tm
    ELSE IF tm[<<x, y>>] # "Empty" THEN EastLoop(tm, x - 1, y)
    ELSE EastFor(tm, x, y, x - 1)

EastFor(tm, x, y, following_x) ==
    IF following_x < 0 THEN EastLoop(tm, x - 1, y)
    ELSE CASE tm[<<following_x, y>>] = "CubeRock" ->
                 IF following_x = 0 THEN tm
                 ELSE EastLoop(tm, following_x - 1, y)
           [] tm[<<following_x, y>>] = "RoundRock" ->
                 LET moved == [tm EXCEPT ![<<x, y>>] = "RoundRock",
                                         ![<<following_x, y>>] = "Empty"]
                 IN  IF following_x = 0 THEN moved
                     ELSE EastLoop(moved, x - 1, y)
           [] tm[<<following_x, y>>] = "Empty" ->
                 IF following_x = 0 THEN tm
                 ELSE EastFor(tm, x, y, following_x - 1)

(* tilt_east: for y in 0..self.max_y, x starting at max_x - 1 *)
RECURSIVE EastRows(_, _, _, _)
EastRows(tm, y, max_x, max_y) ==
    IF y >= max_y THEN tm
    ELSE LET row == EastLoop(tm, max_x - 1, y)
         IN  IF row = tm THEN EastRows(tm, y + 1, max_x, max_y)
             ELSE EastRows(row, y + 1, max_x, max_y)

tilt_north(p) == [p EXCEPT !.tile_map = NorthColumns(p.tile_map, 0, p.max_x, p.max_y)]

tilt_south(p) == [p EXCEPT !.tile_map = SouthColumns(p.tile_map, p.max_x - 1, p.max_y)]

tilt_west_AsEast(p) == [p EXCEPT !.tile_map = EastRows(p.tile_map, 0, p.max_x, p.max_y)]

tilt_west(p) == [p EXCEPT !.tile_map = WestRows(p.tile_map, 0, p.max_x, p.max_y)]

tilt_east(p) == [p EXCEPT !.tile_map = EastRows(p.tile_map, 0, p.max_x, p.max_y)]

cycle_EastBeforeSouth(p) == tilt_south(tilt_east(tilt_west(tilt_north(p))))

cycle(p) == tilt_east(tilt_south(tilt_west(tilt_north(p))))

(* The lines of every rectangular input of at most MaxTiles tiles, with at *)
(* least one line and one character per line.                              *)
PlatformLines ==
    UNION {[1..h -> [1..w -> {"O", "#", "."}]] :
              <<w, h>> \in {d \in (1..MaxTiles) \X (1..MaxTiles) : d[1] * d[2] <= MaxTiles}}

(* The state once parse_input has returned the Platform; the text it was   *)
(* parsed from is no longer held.                                          *)
Init14 ==
    /\ input = <<>>
    /\ platform \in {PlatformFromStr(lines).platform : lines \in PlatformLines}
    /\ trail = <<>>
    /\ overflow_checks = TRUE
    /\ debug_assertions = TRUE
    /\ pc = "tilting"
    /\ grid = NoGrid
    /\ answer = 0
    /\ stdout = <<>>
    /\ panic = "none"
    /\ line_no = 0
    /\ id_to_brick_map = EmptyMap
    /\ coord_to_brick_map = EmptyMap
    /\ bricks = <<>>
    /\ next_idx = 1
    /\ cur = NoCur
    /\ settled = EmptyMap
    /\ pass = 1
    /\ grid_above_found = FALSE
    /\ brick_ids_above = {}
    /\ safe = EmptyMap
    /\ box_array = NoBoxes
    /\ last_step = NoStep
    /\ previous_record = <<>>
    /\ this_record = <<>>
    /\ solve_i = 0
    /\ jumps = 0

varsSolve == <<input, overflow_checks, pc, line_no, id_to_brick_map, coord_to_brick_map,
               bricks, next_idx, cur, settled, pass, grid_above_found, brick_ids_above,
               safe, answer, stdout, panic, debug_assertions, grid>>

(* The calls made on the platform are remembered three deep, each with the *)
(* tile map it left; the tile map a call was given is kept for the last    *)
(* call only.                                                              *)
Remember(call, before, after) ==
    LET entry == [call |-> call, before |-> before.tile_map, after |-> after.tile_map]
        older == [n \in 1..Len(trail) |-> [trail[n] EXCEPT !.before = <<>>]]
    IN  IF Len(trail) < 3 THEN Append(older, entry) ELSE Append(Tail(older), entry)

Call14(call, after) ==
    /\ pc = "tilting"
    /\ platform' = after
    /\ trail' = Remember(call, platform, after)
    /\ UNCHANGED <<varsSolve, vars15, vars14b>>

TiltNorth == Call14("tilt_north", tilt_north(platform))

TiltSouth == Call14("tilt_south", tilt_south(platform))

TiltWest == Call14("tilt_west", tilt_west(platform))

TiltEast == Call14("tilt_east", tilt_east(platform))

Cycle == Call14("cycle", cycle(platform))

Next14 ==
    \/ TiltNorth
    \/ TiltSouth
    \/ TiltWest
    \/ TiltEast
    \/ Cycle

Spec14 == Init14 /\ [][Next14]_vars

-----------------------------------------------------------------------------
(* day-14a: the platform is tilted north once and its load is computed.    *)
(* Tile, Coordinate, Platform and Platform::from_str are those of day-14b, *)
(* line for line; tilt_north is written with nested for loops.             *)

(* A variant of the inner loop in which a cube rock does not stop the scan. *)
RECURSIVE NorthFor14a_ThroughCubes(_, _, _, _, _)
NorthFor14a_ThroughCubes(tm, x, y, following_y, max_y) ==
    IF following_y >= max_y THEN [tile_map |-> tm, break_column |-> FALSE]
    ELSE IF tm[<<x, following_y>>] = "RoundRock"
    THEN [tile_map |-> [tm EXCEPT ![<<x, y>>] = "RoundRock", ![<<x, following_y>>] = "Empty"],
          break_column |-> FALSE]
    ELSE NorthFor14a_ThroughCubes(tm, x, y, following_y + 1, max_y)

(* for following_y in (y + 1)..self.max_y: the tile map the loop leaves    *)
(* and whether it left through break 'column_loop.                         *)
RECURSIVE NorthFor14a(_, _, _, _, _)
NorthFor14a(tm, x, y, following_y, max_y) ==
    IF following_y >= max_y THEN [tile_map |-> tm, break_column |-> FALSE]
    ELSE IF tm[<<x, following_y>>] = "CubeRock"
    THEN [tile_map |-> tm, break_column |-> FALSE]
    ELSE IF tm[<<x, following_y>>] = "RoundRock"
    THEN [tile_map |-> [tm EXCEPT ![<<x, y>>] = "RoundRock", ![<<x, following_y>>] = "Empty"],
          break_column |-> FALSE]
    ELSE IF following_y = max_y
    THEN [tile_map |-> tm, break_column |-> TRUE]
    ELSE NorthFor14a(tm, x, y, following_y + 1, max_y)

(* 'column_loop: for y in 0..(self.max_y - 1) *)
RECURSIVE NorthColumn14a(_, _, _, _)
NorthColumn14a(tm, x, y, max_y) ==
    IF y >= max_y - 1 THEN tm
    ELSE IF tm[<<x, y>>] # "Empty" THEN NorthColumn14a(tm, x, y + 1, max_y)
    ELSE LET scanned == NorthFor14a(tm, x, y, y + 1, max_y)
         IN  IF scanned.break_column THEN scanned.tile_map
             ELSE NorthColumn14a(scanned.tile_map, x, y + 1, max_y)

(* for x in 0..self.max_x *)
RECURSIVE NorthColumns14a(_, _, _, _)
NorthColumns14a(tm, x, max_x, max_y) ==
    IF x >= max_x THEN tm
    ELSE NorthColumns14a(NorthColumn14a(tm, x, 0, max_y), x + 1, max_x, max_y)

tilt_north_14a(p) == [p EXCEPT !.tile_map = NorthColumns14a(p.tile_map, 0, p.max_x, p.max_y)]

(* calculate_load, the same in day-14a and day-14b: a round rock in row y  *)
(* weighs y_to_load_map[y] = max_y - y.                                    *)
(* for y in 0..self.max_y *)
RECURSIVE LoadFor(_, _, _)
LoadFor(p, x, y) ==
    IF y >= p.max_y THEN 0
    ELSE (IF p.tile_map[<<x, y>>] = "RoundRock" THEN p.max_y - y ELSE 0) + LoadFor(p, x, y + 1)

(* for x in 0..self.max_x *)
RECURSIVE LoadColumns(_, _)
LoadColumns(p, x) ==
    IF x >= p.max_x THEN 0
    ELSE LoadFor(p, x, 0) + LoadColumns(p, x + 1)

calculate_load(p) == LoadColumns(p, 0)

(* Inputs of one to MaxTiles empty lines: platforms with rows and no tile. *)
EmptyLines == UNION {[1..h -> {<<>>}] : h \in 1..MaxTiles}

(* The example of the puzzle, as in tests::test_examples. *)
ExamplePlatformLines ==
    << <<"O",".",".",".",".","#",".",".",".",".">>,
       <<"O",".","O","O","#",".",".",".",".","#">>,
       <<".",".",".",".",".","#","#",".",".",".">>,
       <<"O","O",".","#","O",".",".",".",".","O">>,
       <<".","O",".",".",".",".",".","O","#",".">>,
       <<"O",".","#",".",".","O",".","#",".","#">>,
       <<".",".","O",".",".","#","O",".",".","O">>,
       <<".",".",".",".",".",".",".","O",".",".">>,
       <<"#",".",".",".",".","#","#","#",".",".">>,
       <<"#","O","O",".",".","#",".",".",".",".">> >>

(* solve, once parse_input has returned the Platform *)
Init14a ==
    /\ input = <<>>
    /\ platform \in {PlatformFromStr(lines).platform :
                         lines \in PlatformLines \cup EmptyLines \cup {ExamplePlatformLines}}
    /\ trail = <<>>
    /\ overflow_checks = TRUE
    /\ debug_assertions = TRUE
    /\ pc = "tilt_north"
    /\ grid = NoGrid
    /\ answer = 0
    /\ stdout = <<>>
    /\ panic = "none"
    /\ line_no = 0
    /\ id_to_brick_map = EmptyMap
    /\ coord_to_brick_map = EmptyMap
    /\ bricks = <<>>
    /\ next_idx = 1
    /\ cur = NoCur
    /\ settled = EmptyMap
    /\ pass = 1
    /\ grid_above_found = FALSE
    /\ brick_ids_above = {}
    /\ safe = EmptyMap
    /\ box_array = NoBoxes
    /\ last_step = NoStep
    /\ previous_record = <<>>
    /\ this_record = <<>>
    /\ solve_i = 0
    /\ jumps = 0

(* solve: platform.tilt_north() *)
SolveTiltNorth14a ==
    /\ pc = "tilt_north"
    /\ platform' = tilt_north_14a(platform)
    /\ trail' = Remember("tilt_north", platform, tilt_north_14a(platform))
    /\ pc' = "calculate_load"
    /\ UNCHANGED <<vars15, vars14b, input, overflow_checks, line_no, id_to_brick_map,
                   coord_to_brick_map, bricks, next_idx, cur, settled, pass,
                   grid_above_found, brick_ids_above, safe, answer, stdout, panic,
                   debug_assertions, grid>>

(* solve: platform.calculate_load() *)
SolveCalculateLoad14a ==
    /\ pc = "calculate_load"
    /\ answer' = calculate_load(platform)
    /\ pc' = "print"
    /\ UNCHANGED <<vars14, vars15, vars14b, input, overflow_checks, line_no, id_to_brick_map,
                   coord_to_brick_map, bricks, next_idx, cur, settled, pass,
                   grid_above_found, brick_ids_above, safe, stdout, panic,
                   debug_assertions, grid>>

Next14a ==
    \/ SolveTiltNorth14a
    \/ SolveCalculateLoad14a
    \/ PrintAnswer

Spec14a == Init14a /\ [][Next14a]_vars

-----------------------------------------------------------------------------
(* day-14b: solve runs cycles until two windows of recorded loads agree,   *)
(* then the cycles left over modulo the window length.                     *)

NUM_ITERATIONS_REQUIRED == 1000000000

CYCLE_LENGTH == 18

(* The inputs solve is run on have at most MaxSolveTiles tiles, and the    *)
(* detection loop is followed for at most MaxCycles cycles.                *)
MaxSolveTiles == 4

MaxCycles == 54

SolveLines ==
    UNION {[1..h -> [1..w -> {"O", "#", "."}]] :
              <<w, h>> \in {d \in (1..MaxSolveTiles) \X (1..MaxSolveTiles) :
                               d[1] * d[2] <= MaxSolveTiles}}

(* A platform of 37 by 21 tiles with one round rock, which each of the     *)
(* first eighteen cycles leaves in the bottom row, further to the left,    *)
(* and the later ones take around a loop of five positions, two of them in *)
(* the bottom row.                                                         *)
StaircaseLines ==
    << <<".","#",".",".","#",".",".",".",".",".",".",".",".",".",".",".",".",".",".",".",".",".",".",".",".",".",".",".",".",".",".",".",".",".",".",".",".">>,
       <<".",".",".","#",".",".",".",".",".",".",".",".",".",".",".",".",".",".",".",".",".",".",".",".",".",".",".",".",".",".",".",".",".",".",".",".",".">>,
       <<"#",".",".",".",".","#","#",".",".",".",".",".",".",".",".",".",".",".",".",".",".",".",".",".",".",".",".",".",".",".",".",".",".",".",".",".",".">>,
       <<".",".","#",".",".",".",".","#",".",".",".",".",".",".",".",".",".",".",".",".",".",".",".",".",".",".",".",".",".",".",".",".",".",".",".",".",".">>,
       <<".",".",".",".","#",".",".",".",".","#",".",".",".",".",".",".",".",".",".",".",".",".",".",".",".",".",".",".",".",".",".",".",".",".",".",".",".">>,
       <<".",".",".",".",".",".","#",".",".",".",".","#",".",".",".",".",".",".",".",".",".",".",".",".",".",".",".",".",".",".",".",".",".",".",".",".",".">>,
       <<".",".",".",".",".",".",".",".","#",".",".",".",".","#",".",".",".",".",".",".",".",".",".",".",".",".",".",".",".",".",".",".",".",".",".",".",".">>,
       <<".",".",".",".",".",".",".",".",".",".","#",".",".",".",".","#",".",".",".",".",".",".",".",".",".",".",".",".",".",".",".",".",".",".",".",".",".">>,
       <<".",".",".",".",".",".",".",".",".",".",".",".","#",".",".",".",".","#",".",".",".",".",".",".",".",".",".",".",".",".",".",".",".",".",".",".",".">>,
       <<".",".",".",".",".",".",".",".",".",".",".",".",".",".","#",".",".",".",".","#",".",".",".",".",".",".",".",".",".",".",".",".",".",".",".",".",".">>,
       <<".",".",".",".",".",".",".",".",".",".",".",".",".",".",".",".","#",".",".",".",".","#",".",".",".",".",".",".",".",".",".",".",".",".",".",".",".">>,
       <<".",".",".",".",".",".",".",".",".",".",".",".",".",".",".",".",".",".","#",".",".",".",".","#",".",".",".",".",".",".",".",".",".",".",".",".",".">>,
       <<".",".",".",".",".",".",".",".",".",".",".",".",".",".",".",".",".",".",".",".","#",".",".",".",".","#",".",".",".",".",".",".",".",".",".",".",".">>,
       <<".",".",".",".",".",".",".",".",".",".",".",".",".",".",".",".",".",".",".",".",".",".","#",".",".",".",".","#",".",".",".",".",".",".",".",".",".">>,
       <<".",".",".",".",".",".",".",".",".",".",".",".",".",".",".",".",".",".",".",".",".",".",".",".","#",".",".",".",".","#",".",".",".",".",".",".",".">>,
       <<".",".",".",".",".",".",".",".",".",".",".",".",".",".",".",".",".",".",".",".",".",".",".",".",".",".","#",".",".",".",".","#",".",".",".",".",".">>,
       <<".",".",".",".",".",".",".",".",".",".",".",".",".",".",".",".",".",".",".",".",".",".",".",".",".",".",".",".","#",".",".",".",".","#",".",".",".">>,
       <<".",".",".",".",".",".",".",".",".",".",".",".",".",".",".",".",".",".",".",".",".",".",".",".",".",".",".",".",".",".","#",".",".",".",".","#",".">>,
       <<".",".",".",".",".",".",".",".",".",".",".",".",".",".",".",".",".",".",".",".",".",".",".",".",".",".",".",".",".",".",".",".","#",".",".",".","#">>,
       <<".",".",".",".",".",".",".",".",".",".",".",".",".",".",".",".",".",".",".",".",".",".",".",".",".",".",".",".",".",".",".",".",".",".","#",".","O">>,
       <<".",".","#",".","#",".","#",".","#",".","#",".","#",".","#",".","#",".","#",".","#",".","#",".","#",".","#",".","#",".","#",".","#",".","#",".","#">> >>

(* solve, once parse_input has returned the Platform: the two records and  *)
(* `i` are initialised.                                                    *)
Init14b ==
    /\ input = <<>>
    /\ platform \in {PlatformFromStr(lines).platform :
                         lines \in SolveLines \cup {ExamplePlatformLines, StaircaseLines}}
    /\ trail = <<>>
    /\ previous_record = [k \in 0..CYCLE_LENGTH - 1 |-> 0]
    /\ this_record = [k \in 0..CYCLE_LENGTH - 1 |-> 1]
    /\ solve_i = 0
    /\ jumps = 0
    /\ overflow_checks = TRUE
    /\ debug_assertions = TRUE
    /\ pc = "loop"
    /\ grid = NoGrid
    /\ answer = 0
    /\ stdout = <<>>
    /\ panic = "none"
    /\ line_no = 0
    /\ id_to_brick_map = EmptyMap
    /\ coord_to_brick_map = EmptyMap
    /\ bricks = <<>>
    /\ next_idx = 1
    /\ cur = NoCur
    /\ settled = EmptyMap
    /\ pass = 1
    /\ grid_above_found = FALSE
    /\ brick_ids_above = {}
    /\ safe = EmptyMap
    /\ box_array = NoBoxes
    /\ last_step = NoStep

varsRest14b == <<vars15, input, overflow_checks, line_no, id_to_brick_map,
                 coord_to_brick_map, bricks, next_idx, cur, settled, pass,
                 grid_above_found, brick_ids_above, safe, stdout, panic,
                 debug_assertions, grid>>

(* In solve every cycle is remembered with the tile map it left. *)
RememberCycle(after) == Append(trail, [call |-> "cycle", before |-> <<>>, after |-> after.tile_map])

(* loop: cycle_step == 0 and this_record == previous_record: break, then   *)
(* let jumps = (NUM_ITERATIONS_REQUIRED - i) % CYCLE_LENGTH                *)
SolveBreak ==
    /\ pc = "loop"
    /\ solve_i % CYCLE_LENGTH = 0
    /\ this_record = previous_record
    /\ jumps' = (NUM_ITERATIONS_REQUIRED - solve_i) % CYCLE_LENGTH
    /\ pc' = "jumps"
    /\ UNCHANGED <<vars14, previous_record, this_record, solve_i, answer, varsRest14b>>

(* loop: one iteration that does not break: the records are swapped at the *)
(* start of a window, the platform is cycled and its load recorded.        *)
SolveLoop ==
    /\ pc = "loop"
    /\ solve_i < MaxCycles
    /\ LET cycle_step == solve_i % CYCLE_LENGTH
           after == cycle(platform)
       IN  /\ ~(cycle_step = 0 /\ this_record = previous_record)
           /\ previous_record' = IF cycle_step = 0 THEN this_record ELSE previous_record
           /\ this_record' = [(IF cycle_step = 0 THEN previous_record ELSE this_record)
                                 EXCEPT ![cycle_step] = calculate_load(after)]
           /\ platform' = after
           /\ trail' = RememberCycle(after)
    /\ solve_i' = solve_i + 1
    /\ UNCHANGED <<pc, jumps, answer, varsRest14b>>

(* for _ in 0..jumps: platform.cycle() *)
SolveJump ==
    /\ pc = "jumps"
    /\ jumps > 0
    /\ platform' = cycle(platform)
    /\ trail' = RememberCycle(cycle(platform))
    /\ jumps' = jumps - 1
    /\ UNCHANGED <<pc, previous_record, this_record, solve_i, answer, varsRest14b>>

(* platform.calculate_load(), the value solve returns *)
SolveCalculateLoad14b ==
    /\ pc = "jumps"
    /\ jumps = 0
    /\ answer' = calculate_load(platform)
    /\ pc' = "print"
    /\ UNCHANGED <<vars14, vars14b, varsRest14b>>

Next14b ==
    \/ SolveLoop
    \/ SolveBreak
    \/ SolveJump
    \/ SolveCalculateLoad14b
    \/ PrintAnswer

Spec14b == Init14b /\ [][Next14b]_vars

-----------------------------------------------------------------------------
(* day-15b: the boxes of lenses                                            *)
(*                                                                         *)
(* A Label is a sequence of ASCII lower-case letters.  A Box is the record *)
(* of its Vec index_to_label and its HashMap label_to_lens; a Lens is its  *)
(* focal_length.                                                           *)

MaxFocal == 2

Lowercase ==
    <<"a","b","c","d","e","f","g","h","i","j","k","l","m",
      "n","o","p","q","r","s","t","u","v","w","x","y","z">>

(* label.bytes(): the ASCII code of a lower-case letter.  The u32 `answer` *)
(* of box_number_from_label stays below 256 between bytes, so no step of   *)
(* the loop exceeds (255 + 122) * 17.                                      *)
AsciiByte(c) == 96 + CHOOSE i \in 1..Len(Lowercase) : Lowercase[i] = c

RECURSIVE HashBytes(_, _, _)
HashBytes(label, i, hash) ==
    IF i > Len(label) THEN hash
    ELSE HashBytes(label, i + 1, ((hash + AsciiByte(label[i])) * 17) % 256)

box_number_from_label(label) == HashBytes(label, 1, 0)

box_number(step) == box_number_from_label(step.label)

BoxNew == [index_to_label |-> <<>>, label_to_lens |-> <<>>]

(* HashMap::remove and HashMap::insert *)
MapRemove(map, key) == [k \in DOMAIN map \ {key} |-> map[k]]

MapPut(map, key, value) == [k \in DOMAIN map \cup {key} |-> IF k = key THEN value ELSE map[k]]

(* Vec::remove(index), 1-based here *)
VecRemove(vec, index) == [i \in 1..Len(vec) - 1 |-> IF i < index THEN vec[i] ELSE vec[i + 1]]

Positions(vec, label) == {i \in 1..Len(vec) : vec[i] = label}

(* iter().position(): the first index holding the label *)
Position(vec, label) == CHOOSE i \in Positions(vec, label) : \A j \in Positions(vec, label) : i <= j

(* Vec::swap_remove in place of Vec::remove *)
BoxRemoveLens_SwapRemove(box, label) ==
    IF label \in DOMAIN box.label_to_lens
    THEN IF Positions(box.index_to_label, label) = {}
         THEN [tag |-> "Panic"]
         ELSE LET index == Position(box.index_to_label, label)
                  vec   == box.index_to_label
              IN  [tag |-> "Ok",
                   box |-> [index_to_label |->
                               [i \in 1..Len(vec) - 1 |-> IF i = index THEN vec[Len(vec)] ELSE vec[i]],
                            label_to_lens |-> MapRemove(box.label_to_lens, label)]]
    ELSE [tag |-> "Ok", box |-> box]

(* Box::apply_operation, Operation::RemoveLens(label) *)
BoxRemoveLens(box, label) ==
    IF label \in DOMAIN box.label_to_lens
    THEN IF Positions(box.index_to_label, label) = {}
         THEN [tag |-> "Panic"]
         ELSE [tag |-> "Ok",
               box |-> [index_to_label |-> VecRemove(box.index_to_label,
                                                     Position(box.index_to_label, label)),
                        label_to_lens |-> MapRemove(box.label_to_lens, label)]]
    ELSE [tag |-> "Ok", box |-> box]

(* a present label is pushed again *)
BoxInsertLens_AlwaysPushes(box, label, focal_length) ==
    [tag |-> "Ok",
     box |-> [index_to_label |-> Append(box.index_to_label, label),
              label_to_lens |-> MapPut(box.label_to_lens, label, focal_length)]]

(* Box::apply_operation, Operation::InsertLens(label, focal_length) *)
BoxInsertLens(box, label, focal_length) ==
    [tag |-> "Ok",
     box |-> [index_to_label |-> IF label \in DOMAIN box.label_to_lens
                                 THEN box.index_to_label
                                 ELSE Append(box.index_to_label, label),
              label_to_lens |-> MapPut(box.label_to_lens, label, focal_length)]]

BoxApplyOperation(box, step) ==
    IF step.op = "RemoveLens"
    THEN BoxRemoveLens(box, step.label)
    ELSE BoxInsertLens(box, step.label, step.focal_length)

(* the operation goes to the box after the one the label names *)
BoxArrayApplyOperation_NextBox(boxes, step) ==
    LET n == (box_number(step) + 1) % 256
        r == BoxApplyOperation(boxes[n], step)
    IN  IF r.tag = "Ok"
        THEN [tag |-> "Ok", boxes |-> [boxes EXCEPT ![n] = r.box]]
        ELSE r

(* BoxArray::apply_operation *)
BoxArrayApplyOperation(boxes, step) ==
    LET r == BoxApplyOperation(boxes[box_number(step)], step)
    IN  IF r.tag = "Ok"
        THEN [tag |-> "Ok", boxes |-> [boxes EXCEPT ![box_number(step)] = r.box]]
        ELSE r

(* BoxArray::new *)
BoxArrayNew == [i \in 0..255 |-> BoxNew]

(* Labels of the example: rn names box 0, and pc, ot and ab name box 3. *)
Labels == { <<"r","n">>, <<"p","c">>, <<"o","t">>, <<"a","b">> }

Steps ==
    {[op |-> "RemoveLens", label |-> l] : l \in Labels}
    \cup {[op |-> "InsertLens", label |-> l, focal_length |-> f] : l \in Labels, f \in 1..MaxFocal}

(* solve, once parse_input has returned the steps and BoxArray::new the boxes *)
Init15 ==
    /\ input = <<>>
    /\ box_array = BoxArrayNew
    /\ last_step = NoStep
    /\ previous_record = <<>>
    /\ this_record = <<>>
    /\ solve_i = 0
    /\ jumps = 0
    /\ platform = NoPlatform
    /\ trail = <<>>
    /\ overflow_checks = TRUE
    /\ debug_assertions = TRUE
    /\ pc = "steps"
    /\ grid = NoGrid
    /\ answer = 0
    /\ stdout = <<>>
    /\ panic = "none"
    /\ line_no = 0
    /\ id_to_brick_map = EmptyMap
    /\ coord_to_brick_map = EmptyMap
    /\ bricks = <<>>
    /\ next_idx = 1
    /\ cur = NoCur
    /\ settled = EmptyMap
    /\ pass = 1
    /\ grid_above_found = FALSE
    /\ brick_ids_above = {}
    /\ safe = EmptyMap

varsRest15 == <<input, overflow_checks, line_no, id_to_brick_map, coord_to_brick_map,
                bricks, next_idx, cur, settled, pass, grid_above_found, brick_ids_above,
                safe, answer, stdout, debug_assertions, grid>>

(* solve: one turn of the loop over steps, box_array.apply_operation(step) *)
ApplyOperation ==
    /\ pc = "steps"
    /\ \E step \in Steps :
          LET r == BoxArrayApplyOperation(box_array, step)
          IN  /\ last_step' = [op |-> step.op, step |-> step, before |-> box_array]
              /\ IF r.tag = "Ok"
                 THEN box_array' = r.boxes /\ UNCHANGED <<pc, panic>>
                 ELSE Abort("Expected label to be present in index_to_label") /\ UNCHANGED box_array
    /\ UNCHANGED <<varsRest15, vars14, vars14b>>

Next15 ==
    \/ ApplyOperation

Spec15 == Init15 /\ [][Next15]_vars

-----------------------------------------------------------------------------
(* Notions the claims are stated in *)

Cells(brick) == {<<p.x, p.y, z>> : p \in xy_points(brick), z \in z_range(brick)}

PairwiseDisjoint(bmap) ==
    \A i, j \in DOMAIN bmap : i # j => Cells(bmap[i]) \cap Cells(bmap[j]) = {}

AboveFloor(bmap) == \A i \in DOMAIN bmap : bmap[i].min_z >= 1

AllDropped ==
    /\ pc \notin {"parse", "collect", "panicked"}
    /\ DOMAIN settled = DOMAIN id_to_brick_map

Occupied(map, x, y, z) == z \in DOMAIN map /\ [x |-> x, y |-> y] \in DOMAIN map[z]

OccupiedBelow(brick, map) ==
    \E p \in xy_points(brick) : Occupied(map, p.x, p.y, brick.min_z - 1)

NothingAbove(brick, map) ==
    \A p \in xy_points(brick) : ~Occupied(map, p.x, p.y, brick.min_z + brick.z_range_len)

(* d rests on b: d's lowest layer is the one above b's top and the footprints meet *)
RestsOn(d, b) ==
    /\ d.min_z = max_z(b) + 1
    /\ xy_points(d) \cap xy_points(b) # {}

(* The six numbers of a line in the order they are written *)
RECURSIVE NumbersOf(_, _, _)
NumbersOf(s, run, acc) ==
    IF s = <<>> THEN (IF run = <<>> THEN acc ELSE Append(acc, DigitsValue(run, 0)))
    ELSE IF IsDigit(Head(s)) THEN NumbersOf(Tail(s), Append(run, Head(s)), acc)
    ELSE NumbersOf(Tail(s), <<>>, IF run = <<>> THEN acc ELSE Append(acc, DigitsValue(run, 0)))

IsNumber(field) == field # <<>> /\ \A i \in 1..Len(field) : IsDigit(field[i])

IsTriple(part) ==
    LET f == Split(part, ",")
    IN  Len(f) = 3 /\ \A i \in 1..3 : IsNumber(f[i])

WellFormedLine(line) ==
    LET parts == Split(line, "~")
    IN  Len(parts) = 2 /\ IsTriple(parts[1]) /\ IsTriple(parts[2])

(* A line that is the two corners of a brick whose coordinates are u16 values *)
IsBrickLine(line) ==
    /\ WellFormedLine(line)
    /\ \A i \in 1..6 : NumbersOf(line, <<>>, <<>>)[i] <= U16Max

-----------------------------------------------------------------------------
(* C1: solve, run on the seven bricks of the example, returns 5. *)
C1_ExampleReturnsFive ==
    (input = ExampleInput /\ pc \in {"done", "panicked"}) =>
        (pc = "done" /\ answer = 5 /\ stdout = <<5>>)

(* C2: for pairwise disjoint input bricks, once drop_brick has been applied *)
(* to every brick no two distinct bricks contain the same cell.             *)
C2_SettledBricksDisjoint ==
    (AllDropped /\ PairwiseDisjoint(id_to_brick_map)) => PairwiseDisjoint(settled)

C2_Witness ==
    /\ AllDropped
    /\ PairwiseDisjoint(id_to_brick_map)
    /\ \E i, j \in DOMAIN settled :
          /\ settled[i].min_z < id_to_brick_map[i].min_z
          /\ RestsOn(settled[i], settled[j])

(* C3 as stated: every brick returned by drop_brick has min_z >= 1. *)
C3_ReturnedAboveFloor == \A i \in DOMAIN settled : settled[i].min_z >= 1

(* C3 amended: a brick parsed with min_z >= 1 is returned by drop_brick with *)
(* min_z >= 1; a brick parsed with min_z = 0 is returned where it was.       *)
C3_ParsedAboveFloorStaysAbove ==
    \A i \in DOMAIN settled :
        IF id_to_brick_map[i].min_z >= 1 THEN settled[i].min_z >= 1
        ELSE settled[i] = id_to_brick_map[i]

C3_Witness ==
    \E i \in DOMAIN settled : id_to_brick_map[i].min_z > 1 /\ settled[i].min_z = 1

(* C4 as stated: after one pass every brick has min_z = 1 or an occupied *)
(* footprint cell directly below it.                                     *)
C4_BlockedOrOnLayerOne ==
    pass = 2 =>
        \A i \in DOMAIN settled :
            settled[i].min_z = 1 \/ OccupiedBelow(settled[i], coord_to_brick_map)

(* C4 amended: a second pass of drop_brick over a settled configuration   *)
(* moves no brick and leaves the grid unchanged; after one pass every     *)
(* brick has min_z <= 1 or an occupied footprint cell directly below it.  *)
C4_SecondPassMovesNothing ==
    /\ [][pass = 2 =>
            /\ coord_to_brick_map' = coord_to_brick_map
            /\ settled' = settled
            /\ (pc = "drop" => cur' = cur)]_vars
    /\ [](pass = 2 =>
            \A i \in DOMAIN settled :
                settled[i].min_z <= 1 \/ OccupiedBelow(settled[i], coord_to_brick_map))

C4_Witness ==
    /\ pc = "settled"
    /\ \E i, j \in DOMAIN settled :
          /\ settled[i].min_z < id_to_brick_map[i].min_z
          /\ settled[i].min_z > 1
          /\ RestsOn(settled[i], settled[j])

(* C5: if after settling some brick d rests on brick b and on no other   *)
(* brick, the support query of b answers false and b is not counted.     *)
C5_SoleSupportIsUnsafe ==
    (pc = "done" /\ PairwiseDisjoint(id_to_brick_map) /\ AboveFloor(id_to_brick_map)) =>
        \A b, d \in DOMAIN settled :
            ( /\ b # d
              /\ RestsOn(settled[d], settled[b])
              /\ \A c \in DOMAIN settled \ {b, d} : ~RestsOn(settled[d], settled[c]) )
            => (safe[b] = FALSE /\ answer < Cardinality(DOMAIN settled))

(* C6: the support query answers true for a settled brick with nothing on *)
(* its footprint in the layer above its top, that layer absent or not,    *)
(* and the brick is counted; for an input of one brick solve returns 1.   *)
(* In a state where pc is "iter", "done" or "panicked" and cur has been   *)
(* dropped, the query of cur has run and was the last call that ran.      *)
C6_NothingAboveIsSafe ==
    /\ ( /\ pc \in {"iter", "done", "panicked"}
         /\ cur.id \in DOMAIN settled
         /\ settled[cur.id] = cur.brick
         /\ NothingAbove(cur.brick, coord_to_brick_map) )
       => (pc # "panicked" /\ cur.id \in DOMAIN safe /\ safe[cur.id] = TRUE /\ answer >= 1)
    /\ (Len(input) = 1 /\ IsBrickLine(input[1]) /\ pc \in {"done", "panicked"})
       => (pc = "done" /\ answer = 1 /\ stdout = <<1>>)

(* C7: no support query starts before drop_brick has completed for every brick. *)
C7_SettlingPrecedesQueries ==
    pc = "query" => DOMAIN settled = DOMAIN id_to_brick_map

(* C8: Brick::from_str yields, for the corners (x0,y0,z0)~(x1,y1,z1) in      *)
(* either order, min <= max on x and y, min_z = min(z0,z1) and z_range_len = *)
(* |z1 - z0| + 1 >= 1, and the same Brick for the corners swapped.           *)
C8_FromStrNormalises ==
    /\ panic # "main.rs:95: attempt to add with overflow"
    /\ \A i \in DOMAIN id_to_brick_map :
          LET n == NumbersOf(input[i + 1], <<>>, <<>>)
              b == id_to_brick_map[i]
              swapped == BrickFromStr(FormatLine(<<n[4], n[5], n[6]>>, <<n[1], n[2], n[3]>>),
                                      overflow_checks)
          IN  /\ b.min_x = Min(n[1], n[4]) /\ b.max_x = Max(n[1], n[4])
              /\ b.min_y = Min(n[2], n[5]) /\ b.max_y = Max(n[2], n[5])
              /\ b.min_x <= b.max_x /\ b.min_y <= b.max_y
              /\ b.min_z = Min(n[3], n[6])
              /\ b.z_range_len = Max(n[3], n[6]) - Min(n[3], n[6]) + 1
              /\ b.z_range_len >= 1
              /\ swapped = [tag |-> "Ok", brick |-> b]

(* C9: if any line is not two '~'-separated parts of three comma-separated *)
(* numeric fields each, PuzzleInput::from_str returns an error, no bricks  *)
(* and no grid are produced, and solve aborts without printing.            *)
C9_MalformedLineIsAnError ==
    ((\E i \in 1..Len(input) : ~WellFormedLine(input[i])) /\ pc # "parse") =>
        /\ pc = "panicked"
        /\ panic = "unwrap on Err"
        /\ id_to_brick_map = EmptyMap
        /\ coord_to_brick_map = EmptyMap
        /\ stdout = <<>>

(* The longest walk from `point` to the end over tiles not in `seen`: a   *)
(* step leaves a Path tile in any direction and a Slope tile only in its  *)
(* direction, stays in the grid and never enters a Forest tile; -1 when   *)
(* no walk reaches the end.                                               *)
RECURSIVE LongestWalk(_, _, _)
LongestWalk(point, g, seen) ==
    IF point = g.end_point THEN 0
    ELSE LET dirs == IF g.map[point].kind = "Slope" THEN {g.map[point].dir} ELSE Directions
             steps == {q \in {Go(point, d) : d \in dirs} :
                          q \in DOMAIN g.map /\ g.map[q].kind # "Forest" /\ q \notin seen}
             lens == {LongestWalk(q, g, seen \cup {q}) : q \in steps} \ {-1}
         IN  IF lens = {} THEN -1
             ELSE 1 + (CHOOSE n \in lens : \A m \in lens : m <= n)

(* C10: for every grid with a route from START_POINT to the end point,   *)
(* solve returns the number of steps of the longest such route, also     *)
(* when the end point is directly adjacent to a junction; on the grid of *)
(* the test it returns 94.                                               *)
C10_SolveReturnsLongestRoute ==
    (pc \in {"print", "done", "panicked"} /\ grid # NoGrid) =>
        IF input = ExampleGrid
        THEN pc # "panicked" /\ answer = 94
        ELSE LongestWalk(START_POINT, grid, {START_POINT}) >= 0 =>
                (pc # "panicked" /\ answer = LongestWalk(START_POINT, grid, {START_POINT}))

-----------------------------------------------------------------------------
(* day-14b: notions the claims about tilting are stated in *)

Tilts == {"tilt_north", "tilt_south", "tilt_west", "tilt_east"}

(* The coordinates of line k along the direction of a tilt, starting at    *)
(* the edge the rocks roll towards.                                        *)
LineOf(call, k, p) ==
    CASE call = "tilt_north" -> [i \in 1..p.max_y |-> <<k, i - 1>>]
      [] call = "tilt_south" -> [i \in 1..p.max_y |-> <<k, p.max_y - i>>]
      [] call = "tilt_west"  -> [i \in 1..p.max_x |-> <<i - 1, k>>]
      [] call = "tilt_east"  -> [i \in 1..p.max_x |-> <<p.max_x - i, k>>]

LinesOf(call, p) ==
    IF call \in {"tilt_north", "tilt_south"}
    THEN {LineOf(call, k, p) : k \in 0..p.max_x - 1}
    ELSE {LineOf(call, k, p) : k \in 0..p.max_y - 1}

(* a..b is a maximal run of positions of the line without a cube rock *)
MaximalRun(tm, line, a, b) ==
    /\ a <= b
    /\ \A i \in a..b : tm[line[i]] # "CubeRock"
    /\ a = 1 \/ tm[line[a - 1]] = "CubeRock"
    /\ b = Len(line) \/ tm[line[b + 1]] = "CubeRock"

RoundRocksIn(tm, line, a, b) == Cardinality({i \in a..b : tm[line[i]] = "RoundRock"})

LineIsTilted(before, after, line) ==
    /\ \A i \in 1..Len(line) : (before[line[i]] = "CubeRock") <=> (after[line[i]] = "CubeRock")
    /\ \A a, b \in 1..Len(line) :
          MaximalRun(before, line, a, b) =>
             \A i \in a..b :
                after[line[i]] = IF i < a + RoundRocksIn(before, line, a, b)
                                 THEN "RoundRock" ELSE "Empty"

(* C11: every tilt leaves the cube rocks where they are and, in every line *)
(* along its direction, packs the round rocks of each maximal cube-free    *)
(* run onto the tiles of that run nearest the edge tilted towards, as many *)
(* as the run held before.                                                 *)
C11_TiltPacksEveryRun ==
    trail # <<>> =>
        LET last == trail[Len(trail)]
        IN  last.call \in Tilts =>
               /\ DOMAIN last.after = DOMAIN last.before
               /\ \A line \in LinesOf(last.call, platform) :
                     LineIsTilted(last.before, last.after, line)

(* a tilt has moved a round rock in a line that holds a cube rock and two  *)
(* cube-free runs                                                          *)
C11_Witness ==
    /\ trail # <<>>
    /\ trail[Len(trail)].call \in Tilts
    /\ \E line \in LinesOf(trail[Len(trail)].call, platform) :
          /\ \E i \in 2..Len(line) - 1 : trail[Len(trail)].before[line[i]] = "CubeRock"
          /\ \E i \in 1..Len(line) :
                trail[Len(trail)].before[line[i]] # trail[Len(trail)].after[line[i]]

Calls(n) == IF n \in 1..Len(trail) THEN trail[n].call ELSE "none"

Opposite(call) ==
    CASE call = "tilt_north" -> "tilt_south"
      [] call = "tilt_south" -> "tilt_north"
      [] call = "tilt_west"  -> "tilt_east"
      [] call = "tilt_east"  -> "tilt_west"
      [] OTHER               -> "none"

(* C12: a tilt, the opposite tilt and the first tilt again leave exactly   *)
(* the platform the first tilt left, for north/south and for west/east in  *)
(* either order.                                                           *)
C12_TiltBackRestores ==
    (/\ Len(trail) = 3
     /\ Calls(1) \in Tilts
     /\ Calls(2) = Opposite(Calls(1))
     /\ Calls(3) = Calls(1))
    => trail[3].after = trail[1].after

(* north, south, north where the south tilt moved a rock past which a cube *)
(* rock stands on the platform                                             *)
C12_Witness ==
    /\ Len(trail) = 3
    /\ Calls(1) = "tilt_north" /\ Calls(2) = "tilt_south" /\ Calls(3) = "tilt_north"
    /\ trail[2].after # trail[1].after
    /\ trail[3].after # trail[2].after
    /\ \E c \in DOMAIN platform.tile_map : platform.tile_map[c] = "CubeRock"

(* C13: a tilt directly after the same tilt changes no tile, and neither   *)
(* does tilt_east directly after cycle.                                    *)
C13_TiltIsIdempotent ==
    \A n \in 2..Len(trail) :
        (\/ Calls(n) \in Tilts /\ Calls(n - 1) = Calls(n)
         \/ Calls(n) = "tilt_east" /\ Calls(n - 1) = "cycle")
        => trail[n].after = trail[n - 1].after

(* tilt_east has run directly after a cycle that changed the platform, and *)
(* a tilt has run directly after the same tilt                             *)
C13_Witness ==
    /\ Len(trail) = 3
    /\ Calls(2) = "cycle" /\ Calls(3) = "tilt_east"
    /\ trail[2].after # trail[1].after
    /\ \E c \in DOMAIN platform.tile_map : platform.tile_map[c] = "CubeRock"
    /\ \E c \in DOMAIN platform.tile_map : platform.tile_map[c] = "RoundRock"

-----------------------------------------------------------------------------
(* day-15b: notions the claims about the boxes are stated in *)

(* The lenses of a box in order, each as <<label, focal length>>. *)
LensesOf(box) ==
    [i \in 1..Len(box.index_to_label) |->
        <<box.index_to_label[i], box.label_to_lens[box.index_to_label[i]]>>]

HoldsLabel(box, label) == \E i \in 1..Len(box.index_to_label) : box.index_to_label[i] = label

LabelsAgree(box) ==
    DOMAIN box.label_to_lens = {box.index_to_label[i] : i \in 1..Len(box.index_to_label)}

StepBoxBefore == last_step.before[box_number(last_step.step)]

StepBoxAfter == box_array[box_number(last_step.step)]

(* C14: InsertLens(label, f) on a box without the label appends the lens   *)
(* after all the lenses the box holds; on a box with the label it replaces *)
(* the focal length of that lens only, every lens keeping its position.    *)
C14_InsertAppendsOrReplaces ==
    last_step.op = "InsertLens" =>
        LET label  == last_step.step.label
            lens   == <<label, last_step.step.focal_length>>
            before == LensesOf(StepBoxBefore)
            after  == LensesOf(StepBoxAfter)
        IN  /\ panic = "none"
            /\ LabelsAgree(StepBoxAfter)
            /\ IF HoldsLabel(StepBoxBefore, label)
               THEN after = [i \in 1..Len(before) |-> IF before[i][1] = label THEN lens ELSE before[i]]
               ELSE after = Append(before, lens)

(* a lens that is not the last of its box has been given another focal length *)
C14_Witness ==
    /\ last_step.op = "InsertLens"
    /\ \E i \in 1..Len(StepBoxBefore.index_to_label) - 1 :
          /\ StepBoxBefore.index_to_label[i] = last_step.step.label
          /\ StepBoxBefore.label_to_lens[last_step.step.label] # last_step.step.focal_length

(* C15: RemoveLens(label) on a box with the label removes that lens and    *)
(* keeps the other lenses in their order; on a box without the label it    *)
(* leaves the box exactly as it was.                                       *)
C15_RemoveKeepsOrder ==
    last_step.op = "RemoveLens" =>
        LET label  == last_step.step.label
            before == LensesOf(StepBoxBefore)
            after  == LensesOf(StepBoxAfter)
        IN  /\ panic = "none"
            /\ LabelsAgree(StepBoxAfter)
            /\ IF HoldsLabel(StepBoxBefore, label)
               THEN after = SelectSeq(before, LAMBDA lens : lens[1] # label)
               ELSE StepBoxAfter = StepBoxBefore

(* the first of three lenses of a box has been removed *)
C15_Witness ==
    /\ last_step.op = "RemoveLens"
    /\ Len(StepBoxBefore.index_to_label) = 3
    /\ StepBoxBefore.index_to_label[1] = last_step.step.label
    /\ Len(StepBoxAfter.index_to_label) = 2

(* C16: BoxArray::apply_operation changes no box but the one numbered      *)
(* box_number_from_label(label), a number in 0..255 that is 0 for rn, 1    *)
(* for qp and 3 for pc as in the example.                                  *)
C16_OnlyTheNamedBoxChanges ==
    /\ box_number_from_label(<<"r","n">>) = 0
    /\ box_number_from_label(<<"q","p">>) = 1
    /\ box_number_from_label(<<"p","c">>) = 3
    /\ last_step.op # "none" =>
          /\ box_number(last_step.step) \in 0..255
          /\ DOMAIN box_array = 0..255
          /\ \A i \in 0..255 :
                i # box_number(last_step.step) => box_array[i] = last_step.before[i]

(* an operation has changed box 3 while box 0 holds a lens *)
C16_Witness ==
    /\ last_step.op # "none"
    /\ box_number(last_step.step) = 3
    /\ box_array[3] # last_step.before[3]
    /\ box_array[0].index_to_label # <<>>

-----------------------------------------------------------------------------
(* day-22a: the fall of one brick, the order of the falls, the grid *)

(* C17: while drop_brick runs, the brick takes a step exactly when its     *)
(* min_z is above 1 and no cell of its footprint is occupied in the layer  *)
(* directly below min_z; a step lowers it by exactly one layer and changes *)
(* nothing else of it, and at the first position where the condition fails *)
(* the brick is returned as it stands.                                     *)
C17_DropBrickStepsWhileFree ==
    [][pc = "drop" =>
          IF cur.brick.min_z > 1 /\ ~OccupiedBelow(cur.brick, coord_to_brick_map)
          THEN /\ pc' = "drop"
               /\ cur' = [cur EXCEPT !.brick.min_z = cur.brick.min_z - 1]
               /\ settled' = settled
          ELSE /\ pc' # "drop"
               /\ cur.id \in DOMAIN settled'
               /\ settled'[cur.id] = cur.brick]_vars

(* a brick has come down one layer and has been returned above layer 1, on *)
(* top of an occupied cell                                                 *)
C17_Witness ==
    /\ pass = 1
    /\ pc = "iter"
    /\ \E i \in DOMAIN settled :
          /\ settled[i].min_z = id_to_brick_map[i].min_z - 1
          /\ settled[i].min_z > 1
          /\ OccupiedBelow(settled[i], coord_to_brick_map)

(* The ids whose brick was parsed with a lower min_z than brick id. *)
ParsedLower(id) ==
    {j \in DOMAIN id_to_brick_map : id_to_brick_map[j].min_z < id_to_brick_map[id].min_z}

(* C18: in the pass solve makes, the bricks enter drop_brick in an order   *)
(* in which parse-time min_z never decreases; when a brick enters, every   *)
(* brick parsed with a strictly lower min_z has been returned by           *)
(* drop_brick, and a returned brick never enters drop_brick again and      *)
(* keeps the position it was returned at.                                  *)
C18_LowerBricksSettleFirst ==
    [][(pass = 1 /\ pass' = 1) =>
          /\ (pc = "iter" /\ pc' = "drop") =>
                /\ ParsedLower(cur'.id) \subseteq DOMAIN settled
                /\ cur'.id \notin DOMAIN settled
                /\ cur'.brick = id_to_brick_map[cur'.id]
                /\ \A k \in 1..next_idx - 1 :
                      id_to_brick_map[bricks[k].id].min_z <= id_to_brick_map[cur'.id].min_z
          /\ \A j \in DOMAIN settled :
                j \in DOMAIN settled' /\ settled'[j] = settled[j]]_vars

(* a brick enters drop_brick after a brick parsed lower has come down and  *)
(* been returned                                                           *)
C18_Witness ==
    /\ pass = 1
    /\ pc = "drop"
    /\ \E j \in ParsedLower(cur.id) :
          /\ j \in DOMAIN settled
          /\ settled[j].min_z < id_to_brick_map[j].min_z

(* The brick as it stands: inside drop_brick the local `brick`, after it   *)
(* the value drop_brick returned, before it the parsed value.              *)
CurrentBrick(id) ==
    IF pc = "drop" /\ cur.id = id THEN cur.brick
    ELSE IF id \in DOMAIN settled THEN settled[id]
    ELSE id_to_brick_map[id]

(* The cells the grid maps to brick id. *)
GridCellsOf(id, map) ==
    UNION {{<<p.x, p.y, z>> : p \in {q \in DOMAIN map[z] : map[z][q] = id}} : z \in DOMAIN map}

(* C19: when the parsed bricks are pairwise disjoint, from the grid that   *)
(* PuzzleInput::from_str builds onwards and after every single fall step,  *)
(* the cells the grid maps to a brick id are exactly the cells of that     *)
(* brick where it stands: its footprint on every layer of its z range.     *)
C19_GridAgreesWithBricks ==
    (pc \notin {"parse", "panicked"} /\ PairwiseDisjoint(id_to_brick_map)) =>
        \A id \in DOMAIN id_to_brick_map :
            GridCellsOf(id, coord_to_brick_map) = Cells(CurrentBrick(id))

(* a brick two layers high is inside drop_brick, one step down, next to    *)
(* another brick                                                           *)
C19_Witness ==
    /\ pc = "drop"
    /\ pass = 1
    /\ PairwiseDisjoint(id_to_brick_map)
    /\ Cardinality(DOMAIN id_to_brick_map) >= 2
    /\ cur.brick.z_range_len >= 2
    /\ cur.brick.min_z < id_to_brick_map[cur.id].min_z

(* C20: when the support query of a brick has found dependents above it,   *)
(* every dependent has been returned by drop_brick, the Brick looked up    *)
(* for it in id_to_brick_map is the brick at the position it was returned  *)
(* at, and the layer below that position is inspected: the query does not  *)
(* end in a panic.                                                         *)
C20_DependentLookedUpAsSettled ==
    brick_ids_above # {} =>
        /\ pc # "panicked"
        /\ \A d \in brick_ids_above :
              d \in DOMAIN settled /\ id_to_brick_map[d] = settled[d]

(* C21: on an input whose lines all parse to bricks that are pairwise      *)
(* disjoint and lie at z >= 1, solve never panics: no unwrap on None, no   *)
(* u16 overflow, no conflicting borrow of the RefCell around the grid; it  *)
(* runs to its end and main prints the count.                              *)
C21_WellFormedInputRunsToEnd ==
    ( /\ line_no = Len(input)
      /\ DOMAIN id_to_brick_map # {}
      /\ PairwiseDisjoint(id_to_brick_map)
      /\ AboveFloor(id_to_brick_map) )
    => (pc # "panicked" /\ panic = "none")
-----------------------------------------------------------------------------
(* day-14a against day-14b *)

(* C23: on every rectangular platform with at least one row, tilt_north of *)
(* day-14a leaves the tile map that tilt_north of day-14b leaves on the    *)
(* same platform; on the example both give the load 136 of the tests.      *)
C23_TiltNorthAgrees ==
    /\ (trail # <<>> /\ trail[Len(trail)].call = "tilt_north") =>
          trail[Len(trail)].after
              = tilt_north([platform EXCEPT !.tile_map = trail[Len(trail)].before]).tile_map
    /\ (pc = "done" /\ platform.max_x = 10 /\ platform.max_y = 10) => stdout = <<136>>

(* day-14a has tilted a platform on which a round rock moved in a column   *)
(* that holds a cube rock between two other tiles                          *)
C23_Witness ==
    /\ pc = "calculate_load"
    /\ trail # <<>>
    /\ \E line \in LinesOf("tilt_north", platform) :
          /\ \E i \in 2..Len(line) - 1 : trail[1].before[line[i]] = "CubeRock"
          /\ \E i \in 1..Len(line) : trail[1].before[line[i]] # trail[1].after[line[i]]

(* Claim-side notions for solve of day-14b.  When the tile map left by     *)
(* cycle a is left again by a later cycle b, the platform repeats with     *)
(* period b - a from cycle a on, so after n >= a cycles it is as after     *)
(* a + (n - a) % (b - a) cycles.                                           *)
Repeats == {r \in (1..Len(trail)) \X (1..Len(trail)) :
               r[1] < r[2] /\ trail[r[1]].after = trail[r[2]].after}

LoadAfter(n) == calculate_load([platform EXCEPT !.tile_map = trail[n].after])

(* C22: whenever solve's detection loop has stopped and solve has returned, *)
(* the load it returned is the load of the platform after exactly          *)
(* NUM_ITERATIONS_REQUIRED cycles from the initial platform.               *)
C22_ReturnsLoadAfterAllCycles ==
    pc = "done" =>
        \A r \in Repeats :
            stdout = <<LoadAfter(r[1] + ((NUM_ITERATIONS_REQUIRED - r[1]) % (r[2] - r[1])))>>

=============================================================================
